---------------------------- MODULE Spec2Model ----------------------------
(***************************************************************************)
(* State-machine model of the simulation core of agent-story-creator:      *)
(* the WorldStateManager (NPC registry, event queue, game clock, tick      *)
(* pipeline), the EventQueue / EventPropagator pair and the TickRunner.    *)
(*                                                                         *)
(* Numbers.  Game time is counted in whole game hours.  Event intensity    *)
(* is an exact rational kept as an integer number of 1/4,000,000ths, so    *)
(* that every product with the attenuation factors 4/5, 1/2, 3/10, 3/20    *)
(* and 1/20 of inputs that are multiples of 0.01 is again an integer.      *)
(* Energy, health, emotion and affinity are fixed-point numbers in         *)
(* millionths.                                                             *)
(***************************************************************************)
EXTENDS Integers, Sequences, FiniteSets, TLC

VARIABLES
    game_time,      \* WorldStateManager._game_time
    npcs,           \* WorldStateManager._npcs : npc_id -> NPC record
    event_queue,    \* EventQueue._heap : sequence of scheduled events
    memories,       \* InMemoryStore._memories : npc_id -> sequence of entries
    travelers,      \* MovementEngine._travelers : npc_id -> travel state
    lock,           \* WorldStateManager._lock.locked()
    running,        \* the coroutine the event loop is executing, or NoTask
    pc,             \* position of every task (coroutine) of the event loop
    tk,             \* local variables of every tick() call
    runner,         \* TickRunner fields: _running, _task, _ticks_completed
    location_graph, \* WorldStateManager._location_graph
    next_event_id,  \* uuid source of WorldEvent.event_id
    submit_result,  \* argument and return value of the last submit_event
    pop_result,     \* argument and return value of the last pop_due
    delivered,      \* history: every scheduled event pop_due has returned
    clock_base,     \* history: the clock at construction or the last restore
    delta_sum,      \* history: sum of the deltas of the ticks that took the lock since
    ops,            \* history: number of calls made so far, the runner's ticks included
    max_per_location, \* InteractionEngine.max_per_location
    journeys,       \* history: every TravelState MovementEngine.tick has returned
    add_result,     \* argument and outcome of the last add_npc, and their number
    restore_result, \* argument and outcome of the last restore, their number,
                    \* and the travel states the movement engine held at it
    tier_result     \* arguments and outcome of the last select_tier

vars == <<game_time, npcs, event_queue, memories, travelers, lock, running,
          pc, tk, runner, location_graph, next_event_id, submit_result,
          pop_result, delivered, clock_base, delta_sum, ops, max_per_location,
          journeys, add_result, restore_result, tier_result>>

-----------------------------------------------------------------------------
(* Bounds of the model *)

MaxTime == 30
MaxOps == 3
MaxQueue == 6
MaxCrowdTicks == 1

-----------------------------------------------------------------------------
(* Units *)

IntensityOne == 100 * 40000
UnitOne == 1000 * 1000

Min(a, b) == IF a < b THEN a ELSE b
Max(a, b) == IF a > b THEN a ELSE b
Clip(x, lo, hi) == Max(lo, Min(x, hi))
Abs(x) == IF x < 0 THEN -x ELSE x

RECURSIVE SeqSum(_)
SeqSum(s) == IF s = <<>> THEN 0 ELSE Head(s) + SeqSum(Tail(s))

RemoveAt(s, i) == SubSeq(s, 1, i - 1) \o SubSeq(s, i + 1, Len(s))

Range(s) == {s[i] : i \in 1..Len(s)}

-----------------------------------------------------------------------------
(* models/events.py *)

PERSONAL == 0
FAMILY == 1
CITY == 2
REGIONAL == 3
NATIONAL == 4
GLOBAL == 5
LocalityScale == PERSONAL..GLOBAL

\* the table with the attenuations of the two widest-but-one steps exchanged
PROPAGATION_RULES_swapped ==
    (<<PERSONAL, FAMILY>> :> <<1, 4, 5>>) @@
    (<<FAMILY, CITY>> :> <<4, 1, 2>>) @@
    (<<CITY, REGIONAL>> :> <<24, 3, 20>>) @@
    (<<REGIONAL, NATIONAL>> :> <<72, 3, 10>>) @@
    (<<NATIONAL, GLOBAL>> :> <<168, 1, 20>>)

\* (from, to) -> <<delay in game hours, attenuation numerator, denominator>>
PROPAGATION_RULES ==
    (<<PERSONAL, FAMILY>> :> <<1, 4, 5>>) @@
    (<<FAMILY, CITY>> :> <<4, 1, 2>>) @@
    (<<CITY, REGIONAL>> :> <<24, 3, 10>>) @@
    (<<REGIONAL, NATIONAL>> :> <<72, 3, 20>>) @@
    (<<NATIONAL, GLOBAL>> :> <<168, 1, 20>>)

INTENSITY_THRESHOLD == IntensityOne \div 50

None == [none |-> TRUE]

WorldEvent(id, etype, desc, origin, scale, ts, intensity, impact) ==
    [event_id |-> id, event_type |-> etype, description |-> desc,
     origin_scale |-> origin, current_scale |-> scale, timestamp |-> ts,
     intensity |-> intensity, emotion_impact |-> impact]

can_propagate(e) ==
    IF e.intensity < INTENSITY_THRESHOLD
    THEN FALSE
    ELSE e.current_scale < GLOBAL

next_propagation(e) ==
    IF ~can_propagate(e) THEN None
    ELSE LET next_scale == e.current_scale + 1
             key == <<e.current_scale, next_scale>>
         IN  IF key \notin DOMAIN PROPAGATION_RULES THEN None
             ELSE LET rule == PROPAGATION_RULES[key]
                      new_intensity == (e.intensity * rule[2]) \div rule[3]
                  IN  IF new_intensity < INTENSITY_THRESHOLD THEN None
                      ELSE [next_scale |-> next_scale, delay |-> rule[1],
                            new_intensity |-> new_intensity,
                            num |-> rule[2], den |-> rule[3]]

-----------------------------------------------------------------------------
(* events/event_queue.py *)

ScheduledEvent(delivery_time, e) == [delivery_time |-> delivery_time, event |-> e]

\* heapq.heappush: the heap is kept as the list of its entries
push(heap, e, delivery_time) == Append(heap, ScheduledEvent(delivery_time, e))

\* indices heapq may have at heap[0]: the entries of least delivery_time
\* (events do not take part in the comparison, so ties are in any order)
HeapTop(heap) ==
    {i \in 1..Len(heap) :
        \A j \in 1..Len(heap) : heap[i].delivery_time <= heap[j].delivery_time}

\* the loop with `<` for `<=`: an entry due exactly now stays queued
RECURSIVE pop_due_loop_strict(_, _, _)
pop_due_loop_strict(heap, current_time, popped) ==
    IF heap = <<>> THEN {[popped |-> popped, heap |-> heap]}
    ELSE IF \A i \in HeapTop(heap) : heap[i].delivery_time >= current_time
         THEN {[popped |-> popped, heap |-> heap]}
         ELSE UNION {pop_due_loop_strict(RemoveAt(heap, i), current_time,
                                         Append(popped, heap[i])) :
                        i \in HeapTop(heap)}

\* the loop of pop_due: every <<popped entries, heap>> the loop can end with
RECURSIVE pop_due_loop(_, _, _)
pop_due_loop(heap, current_time, popped) ==
    IF heap = <<>> THEN {[popped |-> popped, heap |-> heap]}
    ELSE IF \A i \in HeapTop(heap) : heap[i].delivery_time > current_time
         THEN {[popped |-> popped, heap |-> heap]}
         ELSE UNION {pop_due_loop(RemoveAt(heap, i), current_time,
                                  Append(popped, heap[i])) : i \in HeapTop(heap)}

\* pop_due: `due` is the returned list, the events of the popped entries
pop_due(heap, current_time) ==
    {[due |-> [i \in 1..Len(r.popped) |-> r.popped[i].event],
      popped |-> r.popped, heap |-> r.heap] :
        r \in pop_due_loop(heap, current_time, <<>>)}

\* history record of the entries one pop_due call has handed out
Handed(popped, now) == [i \in 1..Len(popped) |-> [entry |-> popped[i], at |-> now]]

-----------------------------------------------------------------------------
(* events/propagation.py *)

\* the loop without `propagated.timestamp = delivery_time`
RECURSIVE cascade_stale_timestamp(_)
cascade_stale_timestamp(current) ==
    LET result == next_propagation(current)
    IN  IF result = None THEN <<>>
        ELSE LET delivery_time == current.timestamp + result.delay
                 propagated ==
                     [current EXCEPT
                         !.current_scale = result.next_scale,
                         !.intensity = result.new_intensity,
                         !.emotion_impact =
                             (current.emotion_impact * result.num) \div result.den]
             IN  <<ScheduledEvent(delivery_time, propagated)>>
                     \o cascade_stale_timestamp(propagated)

\* the while loop of submit: the scheduled copies after `current`
RECURSIVE cascade(_)
cascade(current) ==
    LET result == next_propagation(current)
    IN  IF result = None THEN <<>>
        ELSE LET delivery_time == current.timestamp + result.delay
                 propagated ==
                     [current EXCEPT
                         !.current_scale = result.next_scale,
                         !.intensity = result.new_intensity,
                         !.emotion_impact =
                             (current.emotion_impact * result.num) \div result.den,
                         !.timestamp = delivery_time]
             IN  <<ScheduledEvent(delivery_time, propagated)>> \o cascade(propagated)

\* submit with the count started at 0
submit_miscount(heap, e) ==
    LET copies == cascade(e)
    IN  [heap |-> push(heap, e, e.timestamp) \o copies,
         count |-> Len(copies),
         pushed |-> <<ScheduledEvent(e.timestamp, e)>> \o copies,
         event |-> e]

\* EventPropagator.submit: the new heap and the returned count (`count = 1`,
\* then `count += 1` for every copy); event and pushed record the call
submit(heap, e) ==
    LET copies == cascade(e)
    IN  [heap |-> push(heap, e, e.timestamp) \o copies,
         count |-> 1 + Len(copies),
         pushed |-> <<ScheduledEvent(e.timestamp, e)>> \o copies,
         event |-> e]

-----------------------------------------------------------------------------
(* The world: NPC ids, locations, tasks *)

NpcIds == {"n1", "n2"}
\* the ids in the order in which the NPCs are registered, which is the order
\* of list(self._npcs.values())
IdOrder == <<"n1", "n2", "n3", "n4">>
AllNpcIds == Range(IdOrder)
Rank(id) == CHOOSE i \in 1..Len(IdOrder) : IdOrder[i] = id
ReqTicks == {"req1", "req2"}
Runner == "runner"
Tasks == ReqTicks \cup {Runner}
NoTask == "none"

\* models/locations.py: no graph, and a graph of a tavern and a forest (their
\* safety and weather comfort are the defaults of the location type) joined
\* by add_edge("tavern", "forest", travel_hours=2.0), which adds both
\* directions; the forest holds one NPC, the tavern any number
EmptyGraph == [locations |-> <<>>, edges |-> <<>>]
ScenarioGraph ==
    [locations |->
        ("tavern" :> [safety |-> 700000, comfort |-> 900000, capacity |-> 0]) @@
        ("forest" :> [safety |-> 300000, comfort |-> 500000, capacity |-> 1]),
     edges |->
        ("tavern" :> {[target_id |-> "forest", travel_hours |-> 2]}) @@
        ("forest" :> {[target_id |-> "tavern", travel_hours |-> 2]})]

get_location(graph, location_id) ==
    IF location_id \in DOMAIN graph.locations
    THEN graph.locations[location_id] ELSE None

get_neighbors(graph, location_id) ==
    IF location_id \in DOMAIN graph.edges THEN graph.edges[location_id] ELSE {}

\* simulation/schedule_engine.py: the labels ScheduleEngine.tick assigns to
\* npc.activity; an NPC that no schedule tick has touched has none
SLEEPING == "sleeping"
WORKING == "working"
NoActivity == "unset"

\* _ARCHETYPE_SCHEDULES: the table of each archetype, a list of slots
\* (start_hour, end_hour, activity)
ARCHETYPE_SCHEDULES ==
    LET DEFAULT_SCHEDULE ==
            <<<<0, 6, SLEEPING>>, <<6, 7, "resting">>, <<7, 12, WORKING>>,
              <<12, 13, "leisure">>, <<13, 18, WORKING>>,
              <<18, 22, "leisure">>, <<22, 24, SLEEPING>>>>
        GUARD_SCHEDULE ==
            <<<<0, 6, WORKING>>, <<6, 8, "resting">>, <<8, 14, SLEEPING>>,
              <<14, 16, "resting">>, <<16, 24, WORKING>>>>
        MERCHANT_SCHEDULE ==
            <<<<0, 6, SLEEPING>>, <<6, 7, "resting">>, <<7, 18, WORKING>>,
              <<18, 20, "leisure">>, <<20, 22, "resting">>,
              <<22, 24, SLEEPING>>>>
        PRIEST_SCHEDULE ==
            <<<<0, 5, SLEEPING>>, <<5, 6, "resting">>, <<6, 8, WORKING>>,
              <<8, 9, "leisure">>, <<9, 12, WORKING>>, <<12, 13, "leisure">>,
              <<13, 17, WORKING>>, <<17, 19, "leisure">>,
              <<19, 22, "resting">>, <<22, 24, SLEEPING>>>>
        FARMER_SCHEDULE ==
            <<<<0, 5, SLEEPING>>, <<5, 6, "resting">>, <<6, 12, WORKING>>,
              <<12, 13, "leisure">>, <<13, 18, WORKING>>,
              <<18, 21, "leisure">>, <<21, 24, SLEEPING>>>>
        NOBLE_SCHEDULE ==
            <<<<0, 8, SLEEPING>>, <<8, 9, "resting">>, <<9, 12, WORKING>>,
              <<12, 14, "leisure">>, <<14, 17, WORKING>>,
              <<17, 23, "leisure">>, <<23, 24, "resting">>>>
        CRIMINAL_SCHEDULE ==
            <<<<0, 6, WORKING>>, <<6, 14, SLEEPING>>, <<14, 16, "resting">>,
              <<16, 22, "leisure">>, <<22, 24, WORKING>>>>
        ARTIST_SCHEDULE ==
            <<<<0, 2, WORKING>>, <<2, 9, SLEEPING>>, <<9, 10, "resting">>,
              <<10, 13, WORKING>>, <<13, 15, "leisure">>, <<15, 19, WORKING>>,
              <<19, 24, "leisure">>>>
        SCHOLAR_SCHEDULE ==
            <<<<0, 6, SLEEPING>>, <<6, 7, "resting">>, <<7, 12, WORKING>>,
              <<12, 13, "leisure">>, <<13, 18, WORKING>>,
              <<18, 20, "leisure">>, <<20, 22, WORKING>>,
              <<22, 24, SLEEPING>>>>
    IN  [generic |-> DEFAULT_SCHEDULE, guard |-> GUARD_SCHEDULE,
         soldier |-> GUARD_SCHEDULE, merchant |-> MERCHANT_SCHEDULE,
         priest |-> PRIEST_SCHEDULE, farmer |-> FARMER_SCHEDULE,
         noble |-> NOBLE_SCHEDULE, criminal |-> CRIMINAL_SCHEDULE,
         artist |-> ARTIST_SCHEDULE, bard |-> ARTIST_SCHEDULE,
         scholar |-> SCHOLAR_SCHEDULE]

\* get_schedule: _ARCHETYPE_SCHEDULES.get(archetype, _DEFAULT_SCHEDULE)
get_schedule(archetype) ==
    IF archetype \in DOMAIN ARCHETYPE_SCHEDULES
    THEN ARCHETYPE_SCHEDULES[archetype]
    ELSE ARCHETYPE_SCHEDULES["generic"]

\* a lookup whose slots are open at their start and closed at their end
resolve_activity_end_inclusive(schedule, hour_of_day) ==
    LET hits == {i \in 1..Len(schedule) :
                    schedule[i][1] < hour_of_day /\ hour_of_day <= schedule[i][2]}
    IN  IF hits = {} THEN "leisure"
        ELSE schedule[CHOOSE i \in hits : \A j \in hits : i <= j][3]

\* resolve_activity: the activity of the first slot with
\* start <= hour_of_day < end, and leisure when the loop finds none
resolve_activity(schedule, hour_of_day) ==
    LET hits == {i \in 1..Len(schedule) :
                    schedule[i][1] <= hour_of_day /\ hour_of_day < schedule[i][2]}
    IN  IF hits = {} THEN "leisure"
        ELSE schedule[CHOOSE i \in hits : \A j \in hits : i <= j][3]

\* ScheduleEngine.compute_activity: sleeping below the exhaustion threshold
\* 0.05, else the slot of the hour of the day in the archetype's table
compute_activity(npc, now) ==
    IF npc.energy < UnitOne \div 20 THEN SLEEPING
    ELSE resolve_activity(get_schedule(npc.archetype), now % 24)

\* models/npc_status.py: a freshly constructed NPC (energy, health 1.0,
\* emotion zero, no relationships, no memories)
NPCVectorialStatus(location_id) ==
    [name |-> "", archetype |-> "generic", personality |-> UnitOne \div 5,
     importance |-> UnitOne \div 2,
     location_id |-> location_id, energy |-> UnitOne,
     health |-> UnitOne, emotion |-> 0, safety |-> 0, comfort |-> 0,
     relationships |-> <<>>, recent_memories |-> <<>>,
     activity |-> NoActivity]

-----------------------------------------------------------------------------
(* app/config.py *)

max_npcs == 2
MAX_RECENT_MEMORIES == 10
MAX_INTERACTIONS_PER_LOCATION == 10
BACKGROUND_TICK_DELTA_HOURS == 1

-----------------------------------------------------------------------------
(* world/world_state.py: calls other than tick *)

\* add_npc without the check of the count
add_npc_unbounded(registry, npc_id, npc) ==
    IF npc_id \in DOMAIN registry
    THEN [registry |-> registry, raised |-> "NPC already exists"]
    ELSE [registry |-> (npc_id :> npc) @@ registry, raised |-> "none"]

\* add_npc without the check of the id: a registered id is overwritten
add_npc_overwriting(registry, npc_id, npc) ==
    IF Cardinality(DOMAIN registry) >= max_npcs
    THEN [registry |-> registry, raised |-> "Maximum NPC count reached"]
    ELSE [registry |-> (npc_id :> npc) @@
                       [id \in DOMAIN registry \ {npc_id} |-> registry[id]],
          raised |-> "none"]

\* add_npc: the registry after the call and the ValueError raised, if any
add_npc(registry, npc_id, npc) ==
    IF Cardinality(DOMAIN registry) >= max_npcs
    THEN [registry |-> registry, raised |-> "Maximum NPC count reached"]
    ELSE IF npc_id \in DOMAIN registry
    THEN [registry |-> registry, raised |-> "NPC already exists"]
    ELSE [registry |-> (npc_id :> npc) @@ registry, raised |-> "none"]

remove_npc(registry, npc_id) ==
    [id \in DOMAIN registry \ {npc_id} |-> registry[id]]

\* submit_event with the stamp applied whatever the event's timestamp is
submit_event_always_stamps(heap, e, now) ==
    submit(heap, [e EXCEPT !.timestamp = now])

\* submit_event: stamps a zero timestamp with the clock, then the propagator
submit_event(heap, e, now) ==
    LET stamped == IF e.timestamp = 0 THEN [e EXCEPT !.timestamp = now] ELSE e
    IN  submit(heap, stamped)

AddNpc(npc_id, location_id) ==
    /\ ops < MaxOps
    /\ LET r == add_npc(npcs, npc_id, NPCVectorialStatus(location_id))
       IN  /\ npcs' = r.registry
           /\ add_result' = [npc_id |-> npc_id, raised |-> r.raised,
                             calls |-> add_result.calls + 1]
    /\ ops' = ops + 1
    /\ UNCHANGED <<game_time, event_queue, memories, travelers, lock, running,
                   pc, tk, runner, location_graph, next_event_id,
                   submit_result, pop_result, delivered, clock_base,
                   delta_sum, max_per_location, journeys, restore_result, tier_result>>

RemoveNpc(npc_id) ==
    /\ ops < MaxOps
    /\ npc_id \in DOMAIN npcs
    /\ npcs' = remove_npc(npcs, npc_id)
    /\ ops' = ops + 1
    /\ UNCHANGED <<game_time, event_queue, memories, travelers, lock, running,
                   pc, tk, runner, location_graph, next_event_id,
                   submit_result, pop_result, delivered, clock_base,
                   delta_sum, max_per_location, journeys, add_result, restore_result, tier_result>>

\* the events a client submits: type, description, timestamp and intensity
\* (1.0, 0.03 and 0.01); scales default to PERSONAL
SubmittedEvents ==
    {[event_type |-> "attack", description |-> "news", timestamp |-> 0,
      intensity |-> IntensityOne],
     [event_type |-> "murder", description |-> "", timestamp |-> 3,
      intensity |-> (3 * IntensityOne) \div 100],
     [event_type |-> "attack", description |-> "news", timestamp |-> 0,
      intensity |-> IntensityOne \div 100]}

SubmitEvent(etype, desc, ts, intensity) ==
    /\ ops < MaxOps
    /\ LET e == WorldEvent(next_event_id, etype, desc, PERSONAL, PERSONAL, ts,
                           intensity, UnitOne \div 2)
           r == submit_event(event_queue, e, game_time)
       IN  /\ Len(r.heap) <= MaxQueue
           /\ event_queue' = r.heap
           /\ submit_result' = [arg |-> e, event |-> r.event, now |-> game_time,
                                count |-> r.count, pushed |-> r.pushed,
                                before |-> event_queue, after |-> r.heap]
    /\ next_event_id' = next_event_id + 1
    /\ ops' = ops + 1
    /\ UNCHANGED <<game_time, npcs, memories, travelers, lock, running, pc,
                   tk, runner, location_graph, pop_result, delivered,
                   clock_base, delta_sum, max_per_location, journeys, add_result, restore_result, tier_result>>

\* get_due_events: pop_due at the current clock, handed to the caller
GetDueEvents ==
    /\ ops < MaxOps
    /\ event_queue # <<>>
    /\ \E r \in pop_due(event_queue, game_time) :
          /\ event_queue' = r.heap
          /\ pop_result' = [now |-> game_time, before |-> event_queue,
                            due |-> r.due, popped |-> r.popped, after |-> r.heap]
          /\ delivered' = delivered \o Handed(r.popped, game_time)
    /\ ops' = ops + 1
    /\ UNCHANGED <<game_time, npcs, memories, travelers, lock, running, pc,
                   tk, runner, location_graph, next_event_id, submit_result,
                   clock_base, delta_sum, max_per_location, journeys, add_result, restore_result, tier_result>>

\* agents/serialization.py.  A serialised NPC is modelled by the NPC it was
\* made from, with two marks: whether the dict has every key deserialize_npc
\* reads, and whether its five vectors have the declared lengths.
\* deserialize_npc that builds the NPC from any dict holding the keys
deserialize_npc_lenient(entry) ==
    [raised |-> IF entry.keys_complete THEN "none" ELSE "KeyError",
     npc |-> entry.npc]

\* deserialize_npc: data[...] raises KeyError for a missing key; the vectors
\* become arrays of whatever length they have; then the constructor is
\* called with activity=..., a keyword NPCVectorialStatus does not declare,
\* and raises TypeError
deserialize_npc(entry) ==
    [raised |-> IF entry.keys_complete THEN "TypeError" ELSE "KeyError",
     npc |-> entry.npc]

\* snapshot(): serialize_npc reads npc.activity, an attribute an NPC has only
\* once ScheduleEngine.tick has assigned it; the graph is written by to_dict
\* and read back by from_dict field by field
snapshot(time, registry, graph) ==
    IF \E id \in DOMAIN registry : registry[id].activity = NoActivity
    THEN [raised |-> "AttributeError"]
    ELSE [raised |-> "none",
          data |-> [keys |-> {"game_time", "npcs", "locations"},
                    game_time |-> time,
                    npcs |-> [id \in DOMAIN registry |->
                                [keys_complete |-> TRUE, lengths_ok |-> TRUE,
                                 npc |-> registry[id]]],
                    locations |-> graph]]

\* the data a client gives to restore: a game time with no NPC, with and
\* without a location graph, and a game time with one NPC
Snapshots ==
    {[keys |-> {"game_time", "npcs", "locations"}, game_time |-> 5,
      npcs |-> <<>>, locations |-> ScenarioGraph],
     [keys |-> {"game_time", "npcs"}, game_time |-> 5,
      npcs |-> <<>>, locations |-> EmptyGraph],
     [keys |-> {"game_time", "npcs"}, game_time |-> 0,
      npcs |-> ("n1" :> [keys_complete |-> TRUE, lengths_ok |-> TRUE,
                         npc |-> [NPCVectorialStatus("tavern")
                                     EXCEPT !.activity = WORKING]]),
      locations |-> EmptyGraph]}

\* restore(data): the statements in their order.  data["game_time"] is read
\* first; the registry is cleared; the NPCs are deserialised one by one, in
\* the order of the dict; only then are the queue and the propagator
\* replaced, and the graph when data has "locations".  An exception leaves
\* the statements before it done and the ones after it undone.
Restore(data) ==
    /\ ops < MaxOps
    /\ LET ids == IF "npcs" \in data.keys THEN DOMAIN data.npcs ELSE {}
           bad == {id \in ids : deserialize_npc(data.npcs[id]).raised # "none"}
           first_bad == CHOOSE id \in bad : \A o \in bad : Rank(id) <= Rank(o)
           loaded == IF bad = {} THEN ids
                     ELSE {id \in ids : Rank(id) < Rank(first_bad)}
           raised == IF "game_time" \notin data.keys THEN "KeyError"
                     ELSE IF "npcs" \notin data.keys THEN "KeyError"
                     ELSE IF bad # {}
                     THEN deserialize_npc(data.npcs[first_bad]).raised
                     ELSE "none"
       IN  /\ restore_result' = [data |-> data, raised |-> raised,
                                 calls |-> restore_result.calls + 1,
                                 next_event_id |-> next_event_id,
                                 travelers |-> travelers]
           /\ IF "game_time" \notin data.keys
              THEN UNCHANGED <<game_time, npcs, event_queue, location_graph,
                               clock_base, delta_sum>>
              ELSE /\ game_time' = data.game_time
                   /\ clock_base' = data.game_time
                   /\ delta_sum' = 0
                   /\ npcs' = [id \in loaded |->
                                 deserialize_npc(data.npcs[id]).npc]
                   /\ IF raised # "none"
                      THEN UNCHANGED <<event_queue, location_graph>>
                      ELSE /\ event_queue' = <<>>
                           /\ location_graph' =
                                 IF "locations" \in data.keys
                                 THEN data.locations ELSE location_graph
    /\ ops' = ops + 1
    /\ UNCHANGED <<memories, travelers, lock, running, pc, tk, runner,
                   next_event_id, submit_result, pop_result, delivered,
                   max_per_location, journeys, add_result, tier_result>>

-----------------------------------------------------------------------------
(* The engines the pipeline calls *)

\* x * intensity for a fixed-point x and an intensity, truncated
Scale(x, intensity) == ((x \div 100) * (intensity \div 400)) \div 100

\* simulation/emotion_engine.py, for the joy coordinate of an NPC of uniform
\* personality: the baseline is 0.2 * (0.1 + 0.1 + 0.3 + 0.2 - 0.2) = 0.1
EmotionBaseline == UnitOne \div 10
EmotionApplyEvent(npc, e) ==
    [npc EXCEPT !.emotion =
        Clip(npc.emotion + Scale(e.emotion_impact, e.intensity), 0, UnitOne)]
\* a decay that pulls the personality along with the emotion
EmotionDecay_moving_personality(npc) ==
    [npc EXCEPT
        !.emotion =
            Clip(npc.emotion + (EmotionBaseline - npc.emotion) \div 20, 0, UnitOne),
        !.personality = npc.personality + (npc.emotion - npc.personality) \div 20]

EmotionDecay(npc) ==
    [npc EXCEPT !.emotion =
        Clip(npc.emotion + (EmotionBaseline - npc.emotion) \div 20, 0, UnitOne)]

\* simulation/vitality_engine.py
DAMAGING_EVENT_TYPES == ("attack" :> <<-150000, -50000>>)
HEALING_EVENT_TYPES == ("feast" :> <<50000, 150000>>)
VitalityImpact(npc, deltas, intensity) ==
    [npc EXCEPT
        !.health = Clip(npc.health + Scale(deltas[1], intensity), 0, UnitOne),
        !.energy = Clip(npc.energy + Scale(deltas[2], intensity), 0, UnitOne)]
VitalityApplyEvent(npc, e) ==
    IF e.event_type \in DOMAIN DAMAGING_EVENT_TYPES
    THEN VitalityImpact(npc, DAMAGING_EVENT_TYPES[e.event_type], e.intensity)
    ELSE IF e.event_type \in DOMAIN HEALING_EVENT_TYPES
    THEN VitalityImpact(npc, HEALING_EVENT_TYPES[e.event_type], e.intensity)
    ELSE npc

\* the cap left out of the per-tick update
apply_health_energy_cap_skipped(npc) == npc

\* VitalityEngine.apply_health_energy_cap
apply_health_energy_cap(npc) ==
    IF npc.health < UnitOne \div 2
    THEN [npc EXCEPT !.energy = Min(npc.energy, 2 * npc.health)]
    ELSE npc

update_npc(npc) ==
    LET regen == (3 * (npc.safety + npc.comfort)) \div 200
        damage == IF npc.safety < 300000 THEN (300000 - npc.safety) \div 50 ELSE 0
        heal == IF npc.health < UnitOne THEN npc.safety \div 200 ELSE 0
    IN  apply_health_energy_cap(
            [npc EXCEPT
                !.energy = Clip(npc.energy - 10000 + regen, 0, UnitOne),
                !.health = Clip(npc.health - damage + heal, 0, UnitOne)])

apply_interaction_costs(npc, energy_cost, health_delta) ==
    [npc EXCEPT !.energy = Clip(npc.energy - energy_cost, 0, UnitOne),
                !.health = Clip(npc.health + health_delta, 0, UnitOne)]

\* simulation/relationship_engine.py
Affinity(npc, other) ==
    IF other \in DOMAIN npc.relationships THEN npc.relationships[other] ELSE 0
apply_delta(npc, other, delta) ==
    LET old == Affinity(npc, other)
        new == Clip(old + (delta \div 1000) * ((UnitOne - Abs(old)) \div 1000),
                    -UnitOne, UnitOne)
    IN  [npc EXCEPT !.relationships =
            (other :> new) @@ [o \in DOMAIN npc.relationships \ {other} |->
                                  npc.relationships[o]]]
\* pruning decided on the value before the decay
decay_pruning_old_value(npc) ==
    LET new_val(o) == (npc.relationships[o] * 99) \div 100
        kept == {o \in DOMAIN npc.relationships :
                    Abs(npc.relationships[o]) >= 10000}
    IN  [npc EXCEPT !.relationships = [o \in kept |-> new_val(o)]]
\* RelationshipEngine.decay, for one NPC
decay(npc) ==
    LET new_val(o) == (npc.relationships[o] * 99) \div 100
        kept == {o \in DOMAIN npc.relationships : Abs(new_val(o)) >= 10000}
    IN  [npc EXCEPT !.relationships = [o \in kept |-> new_val(o)]]

\* simulation/environment_engine.py: blend toward the location's vector
EnvironmentBlend(npc, graph) ==
    LET loc == get_location(graph, npc.location_id)
    IN  IF loc = None THEN npc
        ELSE [npc EXCEPT
                !.safety = Clip(npc.safety + (loc.safety - npc.safety) \div 2,
                                0, UnitOne),
                !.comfort = Clip(npc.comfort + (loc.comfort - npc.comfort) \div 2,
                                 0, UnitOne)]

\* world_state.form_memory_from_event: the NPC's recent list
\* an append that never trims the list
RecentAppend_untrimmed(npc, e) ==
    IF e.description = "" THEN npc
    ELSE [npc EXCEPT !.recent_memories = Append(@, e.description)]

RecentAppend(npc, e) ==
    IF e.description = "" THEN npc
    ELSE LET mem == Append(npc.recent_memories, e.description)
         IN  [npc EXCEPT !.recent_memories =
                IF Len(mem) > MAX_RECENT_MEMORIES
                THEN SubSeq(mem, Len(mem) - MAX_RECENT_MEMORIES + 1, Len(mem))
                ELSE mem]
MemoryEntry(e, now) ==
    [event_text |-> e.description, importance |-> e.intensity,
     game_timestamp |-> now]

\* a store that awaits I/O
store_suspends_on_io == TRUE

\* memory/in_memory_store.py: `async def store` contains no await, so the
\* awaiting tick is never suspended by it
store_suspends == FALSE

\* simulation/interaction_engine.py: the outcomes one stage can produce for
\* the NPCs `list` (pairs of NPCs at one location with enough energy, each
\* NPC in at most one pair, the Bernoulli draws left open)
MIN_ENERGY_FOR_INTERACTION == UnitOne \div 10
InteractionClasses ==
    ("interaction_friendly_chat" :>
        [relationship_delta |-> 100000, energy_cost |-> 10000,
         health_delta |-> 0]) @@
    ("interaction_conflict" :>
        [relationship_delta |-> -200000, energy_cost |-> 30000,
         health_delta |-> -80000])
InteractionIntensity == (3 * IntensityOne) \div 100

\* sleepers paired like anyone else
Eligible_with_sleepers(registry, list) ==
    {id \in list : registry[id].energy >= MIN_ENERGY_FOR_INTERACTION}

\* the NPCs of `list` the engine pairs: awake and with energy enough
Eligible(registry, list) ==
    {id \in list : /\ registry[id].activity # SLEEPING
                   /\ registry[id].energy >= MIN_ENERGY_FOR_INTERACTION}

\* the unordered pairs of one location, as <<a, b>> with a listed before b
CoLocatedPairs(registry, list) ==
    {p \in Eligible(registry, list) \X Eligible(registry, list) :
        /\ Rank(p[1]) < Rank(p[2])
        /\ registry[p[1]].location_id = registry[p[2]].location_id}

\* every pair that draws well resolved, whether or not one of its NPCs has
\* interacted already in this stage
Resolvable_reusing_npcs(registry, list, cap) ==
    {M \in SUBSET CoLocatedPairs(registry, list) :
        \A p \in M :
           Cardinality({q \in M : registry[q[1]].location_id
                                     = registry[p[1]].location_id}) <= cap}

\* the sets of pairs the Bernoulli draws can resolve: no NPC in two pairs
\* (a pair with a used NPC is skipped) and at most `cap` pairs per location
Resolvable(registry, list, cap) ==
    {M \in SUBSET CoLocatedPairs(registry, list) :
        /\ \A p, q \in M : p # q => {p[1], p[2]} \cap {q[1], q[2]} = {}
        /\ \A p \in M :
              Cardinality({q \in M : registry[q[1]].location_id
                                        = registry[p[1]].location_id}) <= cap}

\* the resolved pairs in the order the engine reaches them: location groups
\* in the order of their first NPC, pairs by their first NPC within a group
InOrder(registry, list, M) ==
    LET at(loc) == {Rank(id) : id \in {x \in list : registry[x].location_id = loc}}
        first(loc) == CHOOSE r \in at(loc) : \A q \in at(loc) : r <= q
        group(p) == Len(IdOrder) * first(registry[p[1]].location_id) + Rank(p[1])
        seq[S \in SUBSET M] ==
            IF S = {} THEN <<>>
            ELSE LET p == CHOOSE x \in S : \A y \in S : group(x) <= group(y)
                 IN  <<p>> \o seq[S \ {p}]
    IN  seq[M]

InteractionOutcomes(registry, list, now, event_id, cap) ==
    UNION {
        {LET order == InOrder(registry, list, M)
         IN  [k \in 1..Len(order) |->
                LET p == order[k]
                    c == class[p]
                IN  [npc_a_id |-> p[1], npc_b_id |-> p[2],
                     relationship_delta |-> InteractionClasses[c].relationship_delta,
                     energy_cost |-> InteractionClasses[c].energy_cost,
                     health_delta_a |-> InteractionClasses[c].health_delta,
                     health_delta_b |-> InteractionClasses[c].health_delta,
                     event |-> WorldEvent(event_id + k - 1, c, "met", PERSONAL,
                                          PERSONAL, now, InteractionIntensity, 0)]] :
            class \in [M -> DOMAIN InteractionClasses]} :
        M \in Resolvable(registry, list, cap)}

-----------------------------------------------------------------------------
(* world/world_state.py: tick.  One action per statement of the pipeline;  *)
(* tk[t] holds the locals of task t's call.                                 *)

NoTick == [delta_hours |-> 0, before |-> 0, due_events |-> <<>>, npcs |-> {},
           i |-> 1,
           outcomes |-> <<>>, interactions_resolved |-> 0, npcs_moved |-> 0,
           result |-> None]

\* the event loop runs one coroutine at a time: task t can take a step when
\* it is the one running, or when nothing runs and it is picked up
CanRun(t) == running \in {t, NoTask}

\* the NPC objects of tick t's list that are still the registry's objects
Live(t) == tk[t].npcs \cap DOMAIN npcs

\* a batch stage: every NPC of the list replaced by its updated record
Batch(t, updated) == [id \in DOMAIN npcs |-> IF id \in Live(t) THEN updated[id]
                                             ELSE npcs[id]]

Goto(t, from, to) ==
    /\ CanRun(t)
    /\ pc[t] = from
    /\ pc' = [pc EXCEPT ![t] = to]

\* entering the pipeline without taking the lock
TickAcquire_no_lock(t) ==
    /\ Goto(t, "acquire", "advance")
    /\ running' = t
    /\ tk' = [tk EXCEPT ![t].before = game_time]
    /\ delta_sum' = delta_sum + tk[t].delta_hours
    /\ UNCHANGED <<game_time, npcs, event_queue, memories, travelers, lock,
                   runner, location_graph, next_event_id, submit_result,
                   pop_result, delivered, clock_base, ops, max_per_location,
                   journeys, add_result, restore_result, tier_result>>

\* async with self._lock: (a task that finds the lock held waits here)
TickAcquire(t) ==
    /\ Goto(t, "acquire", "advance")
    /\ ~lock
    /\ lock' = TRUE
    /\ running' = t
    /\ tk' = [tk EXCEPT ![t].before = game_time]
    /\ delta_sum' = delta_sum + tk[t].delta_hours
    /\ UNCHANGED <<game_time, npcs, event_queue, memories, travelers, runner,
                   location_graph, next_event_id, submit_result, pop_result,
                   delivered, clock_base, ops, max_per_location, journeys, add_result, restore_result, tier_result>>

\* the clock advanced by the default step, whatever delta_hours is
TickAdvance_default_step(t) ==
    /\ Goto(t, "advance", "pop")
    /\ game_time' = game_time + 1
    /\ running' = t
    /\ UNCHANGED <<npcs, event_queue, memories, travelers, lock, tk, runner,
                   location_graph, next_event_id, submit_result, pop_result,
                   delivered, clock_base, delta_sum, ops, max_per_location,
                   journeys, add_result, restore_result, tier_result>>

\* self._game_time += delta_hours
TickAdvance(t) ==
    /\ Goto(t, "advance", "pop")
    /\ game_time' = game_time + tk[t].delta_hours
    /\ running' = t
    /\ UNCHANGED <<npcs, event_queue, memories, travelers, lock, tk, runner,
                   location_graph, next_event_id, submit_result, pop_result,
                   delivered, clock_base, delta_sum, ops, max_per_location,
                   journeys, add_result, restore_result, tier_result>>

\* the due events read, and left in the queue
TickPopDue_keeps_queue(t) ==
    /\ Goto(t, "pop", "list")
    /\ \E r \in pop_due(event_queue, game_time) :
          /\ tk' = [tk EXCEPT ![t].due_events = r.due]
          /\ pop_result' = [now |-> game_time, before |-> event_queue,
                            due |-> r.due, popped |-> r.popped, after |-> r.heap]
          /\ delivered' = delivered \o Handed(r.popped, game_time)
    /\ running' = t
    /\ UNCHANGED <<game_time, npcs, event_queue, memories, travelers, lock,
                   runner, location_graph, next_event_id, submit_result,
                   clock_base, delta_sum, ops, max_per_location, journeys, add_result, restore_result, tier_result>>

\* due_events = self._event_queue.pop_due(self._game_time)
TickPopDue(t) ==
    /\ Goto(t, "pop", "list")
    /\ \E r \in pop_due(event_queue, game_time) :
          /\ event_queue' = r.heap
          /\ tk' = [tk EXCEPT ![t].due_events = r.due]
          /\ pop_result' = [now |-> game_time, before |-> event_queue,
                            due |-> r.due, popped |-> r.popped, after |-> r.heap]
          /\ delivered' = delivered \o Handed(r.popped, game_time)
    /\ running' = t
    /\ UNCHANGED <<game_time, npcs, memories, travelers, lock, runner,
                   location_graph, next_event_id, submit_result, clock_base,
                   delta_sum, ops, max_per_location, journeys, add_result, restore_result, tier_result>>

\* the list taken and the stages entered whether or not it is empty
TickListNpcs_never_skips(t) ==
    /\ CanRun(t)
    /\ pc[t] = "list"
    /\ tk' = [tk EXCEPT ![t].npcs = DOMAIN npcs,
                        ![t].i = 1]
    /\ pc' = [pc EXCEPT ![t] =
                IF tk[t].due_events = <<>> THEN "emotion_decay"
                ELSE "event_emotion"]
    /\ running' = t
    /\ UNCHANGED <<game_time, npcs, event_queue, memories, travelers, lock,
                   runner, location_graph, next_event_id, submit_result,
                   pop_result, delivered, clock_base, delta_sum, ops,
                   max_per_location, journeys, add_result, restore_result, tier_result>>

\* npcs = list(self._npcs.values()); if npcs: ...
TickListNpcs(t) ==
    /\ CanRun(t)
    /\ pc[t] = "list"
    /\ tk' = [tk EXCEPT ![t].npcs = DOMAIN npcs,
                        ![t].i = 1]
    /\ pc' = [pc EXCEPT ![t] =
                IF DOMAIN npcs = {} THEN "return"
                ELSE IF tk[t].due_events = <<>> THEN "emotion_decay"
                ELSE "event_emotion"]
    /\ running' = t
    /\ UNCHANGED <<game_time, npcs, event_queue, memories, travelers, lock,
                   runner, location_graph, next_event_id, submit_result,
                   pop_result, delivered, clock_base, delta_sum, ops,
                   max_per_location, journeys, add_result, restore_result, tier_result>>

CurrentEvent(t) == tk[t].due_events[tk[t].i]

\* self._emotion_engine.apply_event_batch(npcs, event)
TickEventEmotion(t) ==
    /\ Goto(t, "event_emotion", "event_vitality")
    /\ npcs' = Batch(t, [id \in DOMAIN npcs |->
                            EmotionApplyEvent(npcs[id], CurrentEvent(t))])
    /\ running' = t
    /\ UNCHANGED <<game_time, event_queue, memories, travelers, lock, tk,
                   runner, location_graph, next_event_id, submit_result,
                   pop_result, delivered, clock_base, delta_sum, ops,
                   max_per_location, journeys, add_result, restore_result, tier_result>>

\* self._vitality_engine.apply_event_batch(npcs, event)
TickEventVitality(t) ==
    /\ Goto(t, "event_vitality", "event_social")
    /\ npcs' = Batch(t, [id \in DOMAIN npcs |->
                            VitalityApplyEvent(npcs[id], CurrentEvent(t))])
    /\ running' = t
    /\ UNCHANGED <<game_time, event_queue, memories, travelers, lock, tk,
                   runner, location_graph, next_event_id, submit_result,
                   pop_result, delivered, clock_base, delta_sum, ops,
                   max_per_location, journeys, add_result, restore_result, tier_result>>

\* self._social_engine.apply_event_batch(npcs, event): the social influence
\* vector is not part of the modelled NPC state
TickEventSocial(t) ==
    /\ Goto(t, "event_social", "event_memory")
    /\ running' = t
    /\ UNCHANGED <<game_time, npcs, event_queue, memories, travelers, lock,
                   tk, runner, location_graph, next_event_id, submit_result,
                   pop_result, delivered, clock_base, delta_sum, ops,
                   max_per_location, journeys, add_result, restore_result, tier_result>>

\* for npc in npcs: await self.form_memory_from_event(event, npc)
FormMemories(t, e, ids) ==
    /\ memories' = [id \in DOMAIN memories |->
                      IF id \in ids /\ e.description # ""
                      THEN Append(memories[id], MemoryEntry(e, game_time))
                      ELSE memories[id]]
    /\ npcs' = [id \in DOMAIN npcs |->
                  IF id \in ids /\ id \in Live(t) THEN RecentAppend(npcs[id], e)
                  ELSE npcs[id]]
    /\ running' = IF store_suspends /\ e.description # "" THEN NoTask ELSE t

\* the loop over due_events left after its first event
TickEventMemory_first_only(t) ==
    /\ CanRun(t)
    /\ pc[t] = "event_memory"
    /\ FormMemories(t, CurrentEvent(t), tk[t].npcs)
    /\ tk' = [tk EXCEPT ![t].i = tk[t].i + 1]
    /\ pc' = [pc EXCEPT ![t] = "emotion_decay"]
    /\ UNCHANGED <<game_time, event_queue, travelers, lock, runner,
                   location_graph, next_event_id, submit_result, pop_result,
                   delivered, clock_base, delta_sum, ops, max_per_location,
                   journeys, add_result, restore_result, tier_result>>

TickEventMemory(t) ==
    /\ CanRun(t)
    /\ pc[t] = "event_memory"
    /\ FormMemories(t, CurrentEvent(t), tk[t].npcs)
    /\ tk' = [tk EXCEPT ![t].i = tk[t].i + 1]
    /\ pc' = [pc EXCEPT ![t] = IF tk[t].i < Len(tk[t].due_events)
                               THEN "event_emotion" ELSE "emotion_decay"]
    /\ UNCHANGED <<game_time, event_queue, travelers, lock, runner,
                   location_graph, next_event_id, submit_result, pop_result,
                   delivered, clock_base, delta_sum, ops, max_per_location,
                   journeys, add_result, restore_result, tier_result>>

\* self._emotion_engine.tick(npcs)
TickEmotionDecay(t) ==
    /\ Goto(t, "emotion_decay", "intentions")
    /\ npcs' = Batch(t, [id \in DOMAIN npcs |-> EmotionDecay(npcs[id])])
    /\ running' = t
    /\ UNCHANGED <<game_time, event_queue, memories, travelers, lock, tk,
                   runner, location_graph, next_event_id, submit_result,
                   pop_result, delivered, clock_base, delta_sum, ops,
                   max_per_location, journeys, add_result, restore_result, tier_result>>

\* self._intention_engine.tick(npcs): the intention vector is not part of the
\* modelled NPC state
TickIntentions(t) ==
    /\ Goto(t, "intentions", "interactions")
    /\ running' = t
    /\ UNCHANGED <<game_time, npcs, event_queue, memories, travelers, lock,
                   tk, runner, location_graph, next_event_id, submit_result,
                   pop_result, delivered, clock_base, delta_sum, ops,
                   max_per_location, journeys, add_result, restore_result, tier_result>>

\* outcomes = self._interaction_engine.tick(npcs, self._game_time)
TickInteractions(t) ==
    /\ CanRun(t)
    /\ pc[t] = "interactions"
    /\ \E outcomes \in InteractionOutcomes(npcs, Live(t), game_time,
                                           next_event_id, max_per_location) :
          /\ Len(event_queue) + 2 * Len(outcomes) <= MaxQueue
          /\ tk' = [tk EXCEPT ![t].outcomes = outcomes,
                              ![t].interactions_resolved = Len(outcomes),
                              ![t].i = 1]
          /\ next_event_id' = next_event_id + Len(outcomes)
          /\ pc' = [pc EXCEPT ![t] = IF outcomes = <<>> THEN "relationship_decay"
                                     ELSE "outcome_relationship"]
    /\ running' = t
    /\ UNCHANGED <<game_time, npcs, event_queue, memories, travelers, lock,
                   runner, location_graph, submit_result, pop_result,
                   delivered, clock_base, delta_sum, ops, max_per_location,
                   journeys, add_result, restore_result, tier_result>>

CurrentOutcome(t) == tk[t].outcomes[tk[t].i]
\* npc_a = self._npcs.get(...); npc_b = ...; if npc_a and npc_b:
BothRegistered(o) == o.npc_a_id \in DOMAIN npcs /\ o.npc_b_id \in DOMAIN npcs

\* self._relationship_engine.apply_delta(npc_a, npc_b, delta)
TickOutcomeRelationship(t) ==
    /\ Goto(t, "outcome_relationship", "outcome_costs")
    /\ LET o == CurrentOutcome(t)
       IN  npcs' = IF ~BothRegistered(o) THEN npcs
                   ELSE [npcs EXCEPT
                           ![o.npc_a_id] = apply_delta(@, o.npc_b_id,
                                                       o.relationship_delta),
                           ![o.npc_b_id] = apply_delta(@, o.npc_a_id,
                                                       o.relationship_delta)]
    /\ running' = t
    /\ UNCHANGED <<game_time, event_queue, memories, travelers, lock, tk,
                   runner, location_graph, next_event_id, submit_result,
                   pop_result, delivered, clock_base, delta_sum, ops,
                   max_per_location, journeys, add_result, restore_result, tier_result>>

\* self._vitality_engine.apply_interaction_costs(npc_a, npc_b, ...)
TickOutcomeCosts(t) ==
    /\ Goto(t, "outcome_costs", "outcome_memory")
    /\ LET o == CurrentOutcome(t)
       IN  npcs' = IF ~BothRegistered(o) THEN npcs
                   ELSE [npcs EXCEPT
                           ![o.npc_a_id] = apply_interaction_costs(
                               @, o.energy_cost, o.health_delta_a),
                           ![o.npc_b_id] = apply_interaction_costs(
                               @, o.energy_cost, o.health_delta_b)]
    /\ running' = t
    /\ UNCHANGED <<game_time, event_queue, memories, travelers, lock, tk,
                   runner, location_graph, next_event_id, submit_result,
                   pop_result, delivered, clock_base, delta_sum, ops,
                   max_per_location, journeys, add_result, restore_result, tier_result>>

\* await self.form_memory_from_event(outcome.event, npc_a) and npc_b
TickOutcomeMemory(t) ==
    /\ CanRun(t)
    /\ pc[t] = "outcome_memory"
    /\ pc' = [pc EXCEPT ![t] = "outcome_submit"]
    /\ LET o == CurrentOutcome(t)
       IN  IF BothRegistered(o)
           THEN /\ memories' = [id \in DOMAIN memories |->
                      IF id \in {o.npc_a_id, o.npc_b_id}
                      THEN Append(memories[id], MemoryEntry(o.event, game_time))
                      ELSE memories[id]]
                /\ npcs' = [npcs EXCEPT
                              ![o.npc_a_id] = RecentAppend(@, o.event),
                              ![o.npc_b_id] = RecentAppend(@, o.event)]
                /\ running' = IF store_suspends THEN NoTask ELSE t
           ELSE /\ UNCHANGED <<memories, npcs>>
                /\ running' = t
    /\ UNCHANGED <<game_time, event_queue, travelers, lock, tk, runner,
                   location_graph, next_event_id, submit_result, pop_result,
                   delivered, clock_base, delta_sum, ops, max_per_location,
                   journeys, add_result, restore_result, tier_result>>

\* self.submit_event(outcome.event)
TickOutcomeSubmit(t) ==
    /\ CanRun(t)
    /\ pc[t] = "outcome_submit"
    /\ LET o == CurrentOutcome(t)
           r == submit_event(event_queue, o.event, game_time)
       IN  /\ event_queue' = r.heap
           /\ submit_result' = [arg |-> o.event, event |-> r.event,
                                now |-> game_time, count |-> r.count,
                                pushed |-> r.pushed, before |-> event_queue,
                                after |-> r.heap]
    /\ tk' = [tk EXCEPT ![t].i = tk[t].i + 1]
    /\ pc' = [pc EXCEPT ![t] = IF tk[t].i < Len(tk[t].outcomes)
                               THEN "outcome_relationship"
                               ELSE "relationship_decay"]
    /\ running' = t
    /\ UNCHANGED <<game_time, npcs, memories, travelers, lock, runner,
                   location_graph, next_event_id, pop_result, delivered,
                   clock_base, delta_sum, ops, max_per_location, journeys, add_result, restore_result, tier_result>>

\* relationship decay followed at once by the environment blend
TickRelationshipDecay_then_blend(t) ==
    /\ Goto(t, "relationship_decay", "environment")
    /\ npcs' = Batch(t, [id \in DOMAIN npcs |-> decay(npcs[id])])
    /\ running' = t
    /\ UNCHANGED <<game_time, event_queue, memories, travelers, lock, tk,
                   runner, location_graph, next_event_id, submit_result,
                   pop_result, delivered, clock_base, delta_sum, ops,
                   max_per_location, journeys, add_result, restore_result, tier_result>>

\* self._relationship_engine.decay(npcs)
TickRelationshipDecay(t) ==
    /\ Goto(t, "relationship_decay", "movement")
    /\ npcs' = Batch(t, [id \in DOMAIN npcs |-> decay(npcs[id])])
    /\ running' = t
    /\ UNCHANGED <<game_time, event_queue, memories, travelers, lock, tk,
                   runner, location_graph, next_event_id, submit_result,
                   pop_result, delivered, clock_base, delta_sum, ops,
                   max_per_location, journeys, add_result, restore_result, tier_result>>

\* simulation/movement_engine.py: MovementEngine.tick
\* a threshold of 0.10, that of interactions, in the place of 0.15
MIN_ENERGY_TO_MOVE_lowered == (10 * UnitOne) \div 100

MIN_ENERGY_TO_MOVE == (15 * UnitOne) \div 100
ENERGY_COST_PER_HOUR == (2 * UnitOne) \div 100

AllEdges(graph) == UNION {graph.edges[l] : l \in DOMAIN graph.edges}

\* the check left out: a traveling NPC is asked to decide like any other
is_traveling_never(trav, npc_id) == FALSE

\* MovementEngine.is_traveling
is_traveling(trav, npc_id) == npc_id \in DOMAIN trav

\* arrival only once the clock is past the arrival time
has_arrived_strictly(travel, now) == now > travel.arrival_time

\* `if game_time >= travel.arrival_time`
has_arrived(travel, now) == now >= travel.arrival_time

\* the journey counted from the clock before the tick of one hour
TravelState_from_tick_start(npc_id, origin_id, edge, now) ==
    [npc_id |-> npc_id, origin_id |-> origin_id,
     destination_id |-> edge.target_id, departure_time |-> now,
     arrival_time |-> now - 1 + edge.travel_hours]

\* TravelState(npc_id=..., origin_id=npc.location_id, destination_id=dest_id,
\*             departure_time=game_time, arrival_time=game_time + travel_hours)
TravelState(npc_id, origin_id, edge, now) ==
    [npc_id |-> npc_id, origin_id |-> origin_id,
     destination_id |-> edge.target_id, departure_time |-> now,
     arrival_time |-> now + edge.travel_hours]

\* self._movement_engine.tick(npcs, self._location_graph, self._game_time)
TickMovement(t) ==
    /\ Goto(t, "movement", "environment")
    /\ LET live == Live(t)
           \* counted before the arrivals, and not updated afterwards
           counts(loc) == Cardinality({id \in live : npcs[id].location_id = loc})
           arrived == {id \in DOMAIN travelers : has_arrived(travelers[id], game_time)}
           landed == [id \in DOMAIN npcs |->
                        IF id \in arrived /\ id \in live
                        THEN [npcs[id] EXCEPT
                                !.location_id = travelers[id].destination_id]
                        ELSE npcs[id]]
           on_road == [id \in DOMAIN travelers \ arrived |-> travelers[id]]
           \* decide_movement can return a neighbour only for an NPC with
           \* enough energy; the scores and the random draw are left open
           may_leave == {id \in live : /\ ~is_traveling(on_road, id)
                                       /\ landed[id].energy >= MIN_ENERGY_TO_MOVE}
           allowed(id) ==
               {e \in get_neighbors(location_graph, landed[id].location_id) :
                   LET dest == get_location(location_graph, e.target_id)
                   IN  /\ dest # None
                       /\ dest.capacity > 0 => counts(e.target_id) < dest.capacity}
       IN  \E leaving \in SUBSET may_leave :
           \E edge \in [leaving -> AllEdges(location_graph)] :
              LET travel(id) == TravelState(id, landed[id].location_id, edge[id],
                                            game_time)
              IN  /\ \A id \in leaving : edge[id] \in allowed(id)
                  /\ travelers' =
                        [id \in DOMAIN on_road \cup leaving |->
                            IF id \in leaving THEN travel(id) ELSE on_road[id]]
                  /\ npcs' = [id \in DOMAIN npcs |->
                                IF id \in leaving
                                THEN [landed[id] EXCEPT !.energy =
                                        Max(0, @ - edge[id].travel_hours
                                                   * ENERGY_COST_PER_HOUR)]
                                ELSE landed[id]]
                  /\ tk' = [tk EXCEPT ![t].npcs_moved = Cardinality(leaving)]
                  /\ journeys' = journeys \o
                        [k \in 1..Cardinality(leaving) |->
                            travel(CHOOSE x \in leaving :
                                      Cardinality({y \in leaving :
                                                      Rank(y) < Rank(x)}) = k - 1)]
    /\ running' = t
    /\ UNCHANGED <<game_time, event_queue, memories, lock, runner,
                   location_graph, next_event_id, submit_result, pop_result,
                   delivered, clock_base, delta_sum, ops, max_per_location,
                   add_result, restore_result, tier_result>>

\* self._environment_engine.tick(npcs, self._location_graph)
TickEnvironment(t) ==
    /\ Goto(t, "environment", "vitality")
    /\ npcs' = Batch(t, [id \in DOMAIN npcs |->
                            EnvironmentBlend(npcs[id], location_graph)])
    /\ running' = t
    /\ UNCHANGED <<game_time, event_queue, memories, travelers, lock, tk,
                   runner, location_graph, next_event_id, submit_result,
                   pop_result, delivered, clock_base, delta_sum, ops,
                   max_per_location, journeys, add_result, restore_result, tier_result>>

\* self._vitality_engine.tick(npcs)
TickVitality(t) ==
    /\ Goto(t, "vitality", "social")
    /\ npcs' = Batch(t, [id \in DOMAIN npcs |-> update_npc(npcs[id])])
    /\ running' = t
    /\ UNCHANGED <<game_time, event_queue, memories, travelers, lock, tk,
                   runner, location_graph, next_event_id, submit_result,
                   pop_result, delivered, clock_base, delta_sum, ops,
                   max_per_location, journeys, add_result, restore_result, tier_result>>

\* self._social_engine.tick(npcs): the social influence vector is not part of
\* the modelled NPC state
TickSocial(t) ==
    /\ Goto(t, "social", "return")
    /\ running' = t
    /\ UNCHANGED <<game_time, npcs, event_queue, memories, travelers, lock,
                   tk, runner, location_graph, next_event_id, submit_result,
                   pop_result, delivered, clock_base, delta_sum, ops,
                   max_per_location, journeys, add_result, restore_result, tier_result>>

\* events_pending read before the interaction events were submitted
TickResult_stale_pending(t) ==
    [game_time |-> game_time,
     npcs_updated |-> Cardinality(tk[t].npcs),
     events_delivered |-> Len(tk[t].due_events),
     events_pending |-> Len(pop_result.after),
     interactions_resolved |-> tk[t].interactions_resolved,
     npcs_moved |-> tk[t].npcs_moved]

TickResult(t) ==
    [game_time |-> game_time,
     npcs_updated |-> Cardinality(tk[t].npcs),
     events_delivered |-> Len(tk[t].due_events),
     events_pending |-> Len(event_queue),
     interactions_resolved |-> tk[t].interactions_resolved,
     npcs_moved |-> tk[t].npcs_moved]

\* return TickResult(...), leaving the `async with` block: the lock is
\* released and the locals are gone; a request's coroutine is finished, the
\* runner's loop goes on
TickReturn(t) ==
    /\ CanRun(t)
    /\ pc[t] = "return"
    /\ tk' = [tk EXCEPT ![t] = [NoTick EXCEPT !.delta_hours = tk[t].delta_hours,
                                              !.before = tk[t].before,
                                              !.result = TickResult(t)]]
    /\ lock' = FALSE
    /\ pc' = [pc EXCEPT ![t] = IF t = Runner THEN "completed" ELSE "idle"]
    /\ running' = IF t = Runner THEN t ELSE NoTask
    /\ UNCHANGED <<game_time, npcs, event_queue, memories, travelers, runner,
                   location_graph, next_event_id, submit_result, pop_result,
                   delivered, clock_base, delta_sum, ops, max_per_location,
                   journeys, add_result, restore_result, tier_result>>

\* the positions of a tick between taking and releasing the lock
Stages == <<"advance", "pop", "list", "event_emotion", "event_vitality",
            "event_social", "event_memory", "emotion_decay", "intentions",
            "interactions", "outcome_relationship", "outcome_costs",
            "outcome_memory", "outcome_submit", "relationship_decay",
            "movement", "environment", "vitality", "social", "return">>
InPipeline(t) == pc[t] \in Range(Stages)

\* deltas of the tick calls made and not yet applied to the clock
Pending == LET f[S \in SUBSET Tasks] ==
                   IF S = {} THEN 0
                   ELSE LET t == CHOOSE x \in S : TRUE
                        IN  (IF pc[t] \in {"acquire", "advance"}
                             THEN tk[t].delta_hours ELSE 0) + f[S \ {t}]
           IN  f[Tasks]

Deltas == {1, 4, 24}

\* a client's `await world.tick(delta_hours)`: the coroutine is created
TickCall(t, delta_hours) ==
    /\ running = NoTask
    /\ ops < MaxOps
    /\ pc[t] = "idle"
    /\ game_time + Pending + delta_hours <= MaxTime
    /\ pc' = [pc EXCEPT ![t] = "acquire"]
    /\ tk' = [tk EXCEPT ![t] = [NoTick EXCEPT !.delta_hours = delta_hours]]
    /\ ops' = ops + 1
    /\ UNCHANGED <<game_time, npcs, event_queue, memories, travelers, lock,
                   running, runner, location_graph, next_event_id,
                   submit_result, pop_result, delivered, clock_base,
                   delta_sum, max_per_location, journeys, add_result, restore_result, tier_result>>

-----------------------------------------------------------------------------
(* world/tick_runner.py *)

\* start() without the check of _running: a task is created at every call
StartRunner_unchecked ==
    /\ running = NoTask
    /\ ops < MaxOps
    /\ runner' = [running |-> TRUE, task |-> TRUE, ticks_completed |-> 0]
    /\ pc' = [pc EXCEPT ![Runner] = "created"]
    /\ ops' = ops + 1
    /\ UNCHANGED <<game_time, npcs, event_queue, memories, travelers, lock,
                   running, tk, location_graph, next_event_id, submit_result,
                   pop_result, delivered, clock_base, delta_sum,
                   max_per_location, journeys, add_result, restore_result, tier_result>>

\* start(): raises RuntimeError when already running, else creates the task,
\* which has not run yet when start returns
StartRunner ==
    /\ running = NoTask
    /\ ops < MaxOps
    /\ IF runner.running
       THEN UNCHANGED <<runner, pc>>
       ELSE /\ runner' = [running |-> TRUE, task |-> TRUE, ticks_completed |-> 0]
            /\ pc' = [pc EXCEPT ![Runner] = "created"]
    /\ ops' = ops + 1
    /\ UNCHANGED <<game_time, npcs, event_queue, memories, travelers, lock,
                   running, tk, location_graph, next_event_id, submit_result,
                   pop_result, delivered, clock_base, delta_sum,
                   max_per_location, journeys, add_result, restore_result, tier_result>>

\* stop(): no-op when not running, else cancels the task and awaits it.  The
\* CancelledError is raised in the task where it is suspended; raised inside
\* tick's `async with` it releases the lock.
StopRunner ==
    /\ running = NoTask
    /\ ops < MaxOps
    /\ IF ~runner.running
       THEN UNCHANGED <<runner, pc, lock>>
       ELSE /\ runner' = [runner EXCEPT !.running = FALSE, !.task = FALSE]
            /\ pc' = [pc EXCEPT ![Runner] = "none"]
            /\ lock' = IF InPipeline(Runner) THEN FALSE ELSE lock
    /\ ops' = ops + 1
    /\ UNCHANGED <<game_time, npcs, event_queue, memories, travelers, running,
                   tk, location_graph, next_event_id, submit_result,
                   pop_result, delivered, clock_base, delta_sum,
                   max_per_location, journeys, add_result, restore_result, tier_result>>

\* _loop: `while self._running:` then `await self._world.tick(delta_hours)`
RunnerLoop ==
    /\ CanRun(Runner)
    /\ pc[Runner] \in {"created", "loop"}
    /\ ops < MaxOps
    /\ game_time + Pending + BACKGROUND_TICK_DELTA_HOURS <= MaxTime
    /\ pc' = [pc EXCEPT ![Runner] = IF runner.running THEN "acquire" ELSE "none"]
    /\ tk' = [tk EXCEPT ![Runner] =
                [NoTick EXCEPT !.delta_hours = BACKGROUND_TICK_DELTA_HOURS]]
    /\ running' = Runner
    /\ ops' = ops + 1
    /\ UNCHANGED <<game_time, npcs, event_queue, memories, travelers, lock,
                   runner, location_graph, next_event_id, submit_result,
                   pop_result, delivered, clock_base, delta_sum,
                   max_per_location, journeys, add_result, restore_result, tier_result>>

\* a loop that goes back to its test without sleeping
RunnerCompleted_no_sleep ==
    /\ CanRun(Runner)
    /\ pc[Runner] = "completed"
    /\ runner' = [runner EXCEPT !.ticks_completed = @ + 1]
    /\ pc' = [pc EXCEPT ![Runner] = "loop"]
    /\ running' = NoTask
    /\ UNCHANGED <<game_time, npcs, event_queue, memories, travelers, lock,
                   tk, location_graph, next_event_id, submit_result,
                   pop_result, delivered, clock_base, delta_sum, ops,
                   max_per_location, journeys, add_result, restore_result, tier_result>>

\* _loop: `self._ticks_completed += 1` then `await asyncio.sleep(...)`
RunnerCompleted ==
    /\ CanRun(Runner)
    /\ pc[Runner] = "completed"
    /\ runner' = [runner EXCEPT !.ticks_completed = @ + 1]
    /\ pc' = [pc EXCEPT ![Runner] = "sleep"]
    /\ running' = NoTask
    /\ UNCHANGED <<game_time, npcs, event_queue, memories, travelers, lock,
                   tk, location_graph, next_event_id, submit_result,
                   pop_result, delivered, clock_base, delta_sum, ops,
                   max_per_location, journeys, add_result, restore_result, tier_result>>

\* the sleep is over: the task is ready to run again
RunnerWake ==
    /\ running = NoTask
    /\ pc[Runner] = "sleep"
    /\ pc' = [pc EXCEPT ![Runner] = "loop"]
    /\ UNCHANGED <<game_time, npcs, event_queue, memories, travelers, lock,
                   running, tk, runner, location_graph, next_event_id,
                   submit_result, pop_result, delivered, clock_base,
                   delta_sum, ops, max_per_location, journeys, add_result, restore_result, tier_result>>

-----------------------------------------------------------------------------
(* The manager and the runner driven from the event loop *)

Init ==
    /\ game_time = 0
    /\ npcs = <<>>
    /\ event_queue = <<>>
    /\ memories = [id \in AllNpcIds |-> <<>>]
    /\ travelers = <<>>
    /\ lock = FALSE
    /\ running = NoTask
    /\ pc = [t \in Tasks |-> IF t = Runner THEN "none" ELSE "idle"]
    /\ tk = [t \in Tasks |-> NoTick]
    /\ runner = [running |-> FALSE, task |-> FALSE, ticks_completed |-> 0]
    /\ location_graph \in {EmptyGraph, ScenarioGraph}
    /\ next_event_id = 1
    /\ submit_result = None
    /\ pop_result = None
    /\ delivered = <<>>
    /\ clock_base = 0
    /\ delta_sum = 0
    /\ ops = 0
    /\ max_per_location = MAX_INTERACTIONS_PER_LOCATION
    /\ journeys = <<>>
    /\ add_result = [npc_id |-> "", raised |-> "none", calls |-> 0]
    /\ restore_result = [data |-> <<>>, raised |-> "none", calls |-> 0,
                         next_event_id |-> 0, travelers |-> <<>>]
    /\ tier_result = None

CallAddNpc == running = NoTask /\ \E id \in NpcIds, loc \in {"tavern", "forest"} :
                  AddNpc(id, loc)
CallRemoveNpc == running = NoTask /\ \E id \in NpcIds : RemoveNpc(id)
CallSubmitEvent ==
    /\ running = NoTask
    /\ \E e \in SubmittedEvents :
          SubmitEvent(e.event_type, e.description, e.timestamp, e.intensity)
CallGetDueEvents == running = NoTask /\ GetDueEvents
CallRestore == running = NoTask /\ \E data \in Snapshots : Restore(data)
\* requests are interchangeable: the second is one made while the first is
\* in flight
CallTick == \E t \in ReqTicks, d \in Deltas :
                /\ t = "req2" => pc["req1"] # "idle"
                /\ TickCall(t, d)

Tick(t) ==
    \/ TickAcquire(t) \/ TickAdvance(t) \/ TickPopDue(t) \/ TickListNpcs(t)
    \/ TickEventEmotion(t) \/ TickEventVitality(t) \/ TickEventSocial(t)
    \/ TickEventMemory(t) \/ TickEmotionDecay(t) \/ TickIntentions(t)
    \/ TickInteractions(t) \/ TickOutcomeRelationship(t) \/ TickOutcomeCosts(t)
    \/ TickOutcomeMemory(t) \/ TickOutcomeSubmit(t) \/ TickRelationshipDecay(t)
    \/ TickMovement(t) \/ TickEnvironment(t) \/ TickVitality(t)
    \/ TickSocial(t) \/ TickReturn(t)

Next ==
    \/ CallAddNpc \/ CallRemoveNpc \/ CallSubmitEvent \/ CallGetDueEvents
    \/ CallRestore \/ CallTick
    \/ StartRunner \/ StopRunner \/ RunnerLoop \/ RunnerCompleted \/ RunnerWake
    \/ \E t \in Tasks : Tick(t)

Spec == Init /\ [][Next]_vars

-----------------------------------------------------------------------------
(* api/game_routes.py: create_npc, delete_npc, submit_event and            *)
(* restore_snapshot are plain `def` handlers, which the server runs on     *)
(* worker threads; the manager methods they call take no lock.  A worker   *)
(* thread runs beside the event loop, so its call can fall between two     *)
(* statements of a coroutine the loop is executing.                         *)

\* the tick the event loop is executing
RunningTick == IF running \in Tasks THEN tk[running].npcs ELSE {}

ThreadAddNpc ==
    /\ running # NoTask
    /\ \E id \in NpcIds \ RunningTick, loc \in {"tavern", "forest"} : AddNpc(id, loc)
ThreadRemoveNpc == running # NoTask /\ \E id \in NpcIds : RemoveNpc(id)
ThreadSubmitEvent ==
    /\ running # NoTask
    /\ \E e \in SubmittedEvents :
          SubmitEvent(e.event_type, e.description, e.timestamp, e.intensity)
ThreadRestore ==
    /\ running # NoTask
    /\ \E data \in Snapshots : Restore(data)

NextThreads ==
    \/ Next
    \/ ThreadAddNpc \/ ThreadRemoveNpc \/ ThreadSubmitEvent \/ ThreadRestore

SpecThreads == Init /\ [][NextThreads]_vars

-----------------------------------------------------------------------------
(* The event queue and the propagator on their own: events of every scale  *)
(* and of intensities on both sides of the threshold (0.01, 0.02, 0.16,    *)
(* 0.17, 1.0 and the unvalidated 100.0), entries pushed directly with any  *)
(* delivery time, pop_due at any time.                                     *)

QueueIntensities ==
    {IntensityOne \div 100, IntensityOne \div 50, (16 * IntensityOne) \div 100,
     (17 * IntensityOne) \div 100, IntensityOne, 100 * IntensityOne}
QueueTimes == {0, 2, 5, 200}

\* EventPropagator.submit(event), once per propagator
QueueSubmit(origin, scale, ts, intensity) ==
    /\ ops < MaxOps
    /\ submit_result = None
    /\ LET e == WorldEvent(next_event_id, "attack", "news", origin, scale, ts,
                           intensity, UnitOne \div 2)
           r == submit(event_queue, e)
       IN  /\ Len(r.heap) <= MaxQueue
           /\ event_queue' = r.heap
           /\ submit_result' = [arg |-> e, event |-> r.event, now |-> game_time,
                                count |-> r.count, pushed |-> r.pushed,
                                before |-> event_queue, after |-> r.heap]
    /\ next_event_id' = next_event_id + 1
    /\ ops' = ops + 1
    /\ UNCHANGED <<game_time, npcs, memories, travelers, lock, running, pc,
                   tk, runner, location_graph, pop_result, delivered,
                   clock_base, delta_sum, max_per_location, journeys, add_result, restore_result, tier_result>>

\* EventQueue.push(event, delivery_time)
QueuePush(delivery_time) ==
    /\ ops < MaxOps
    /\ Len(event_queue) < MaxQueue
    /\ event_queue' = push(event_queue,
                           WorldEvent(next_event_id, "feast", "", PERSONAL,
                                      PERSONAL, 0, IntensityOne, 0),
                           delivery_time)
    /\ next_event_id' = next_event_id + 1
    /\ ops' = ops + 1
    /\ UNCHANGED <<game_time, npcs, memories, travelers, lock, running, pc,
                   tk, runner, location_graph, submit_result, pop_result,
                   delivered, clock_base, delta_sum, max_per_location,
                   journeys, add_result, restore_result, tier_result>>

\* EventQueue.pop_due(current_time)
QueuePopDue(current_time) ==
    /\ ops < MaxOps
    /\ \E r \in pop_due(event_queue, current_time) :
          /\ pop_result' = [now |-> current_time, before |-> event_queue,
                            due |-> r.due, popped |-> r.popped, after |-> r.heap]
          /\ event_queue' = r.heap
          /\ delivered' = delivered \o Handed(r.popped, current_time)
    /\ ops' = ops + 1
    /\ UNCHANGED <<game_time, npcs, memories, travelers, lock, running, pc,
                   tk, runner, location_graph, next_event_id, submit_result,
                   clock_base, delta_sum, max_per_location, journeys, add_result, restore_result, tier_result>>

CallQueueSubmit ==
    \E scale \in LocalityScale, ts \in {0, 3}, intensity \in QueueIntensities :
       \E origin \in {PERSONAL, scale} : QueueSubmit(origin, scale, ts, intensity)
CallQueuePush == \E delivery_time \in QueueTimes \ {200} : QueuePush(delivery_time)
CallQueuePopDue == \E current_time \in QueueTimes : QueuePopDue(current_time)

NextEvents == CallQueueSubmit \/ CallQueuePush \/ CallQueuePopDue

Count(s, x) == Cardinality({i \in 1..Len(s) : s[i] = x})

InitEvents == Init /\ location_graph = EmptyGraph

SpecEvents == InitEvents /\ [][NextEvents]_vars

-----------------------------------------------------------------------------
(* The pipeline over a world prepared beforehand, as the engines' tests    *)
(* prepare it: NPCs constructed with a given energy, health, activity and  *)
(* relationships and registered in the order of IdOrder, the tavern and     *)
(* the forest as locations, an interaction engine with a given cap, and     *)
(* then ticks only.                                                          *)

Prepared(location_id, energy, health, activity, relationships) ==
    [NPCVectorialStatus(location_id) EXCEPT
        !.energy = energy, !.health = health, !.activity = activity,
        !.relationships = relationships]

\* energy enough to interact (0.1) but not to move (0.15)
Weary(location_id, activity) ==
    Prepared(location_id, (12 * UnitOne) \div 100, UnitOne, activity, <<>>)

AttackAt(delivery_time) ==
    ScheduledEvent(delivery_time,
                   WorldEvent(0, "attack", "raid", PERSONAL, PERSONAL,
                              delivery_time, IntensityOne, UnitOne \div 2))

NewsAt(delivery_time) ==
    ScheduledEvent(delivery_time,
                   WorldEvent(0, "murder", "news", PERSONAL, PERSONAL,
                              delivery_time, IntensityOne, UnitOne \div 2))

Crowds ==
    \* four NPCs at the tavern, under the default cap and under a cap of 1
    {[npcs |-> [id \in AllNpcIds |-> Weary("tavern", NoActivity)],
      event_queue |-> <<NewsAt(1)>>,
      max_per_location |-> cap] : cap \in {1, MAX_INTERACTIONS_PER_LOCATION}}
    \cup
    \* two NPCs at the tavern beside a third who sleeps, or who is exhausted
    \* or at work, and a fourth in the forest
    {[npcs |-> ("n1" :> Weary("tavern", WORKING)) @@
               ("n2" :> Weary("tavern", NoActivity)) @@
               ("n3" :> third) @@
               ("n4" :> Weary("forest", NoActivity)),
      event_queue |-> <<NewsAt(1)>>,
      max_per_location |-> MAX_INTERACTIONS_PER_LOCATION] :
        third \in {Weary("tavern", SLEEPING), Weary("tavern", WORKING),
                   Prepared("tavern", (5 * UnitOne) \div 100, UnitOne,
                            WORKING, <<>>)}}

Worlds ==
    \* two fresh NPCs at the tavern
    {[npcs |-> ("n1" :> NPCVectorialStatus("tavern")) @@
               ("n2" :> NPCVectorialStatus("tavern")),
      event_queue |-> <<>>,
      max_per_location |-> MAX_INTERACTIONS_PER_LOCATION]}
    \cup
    \* two injured NPCs at the tavern with strong and negligible ties, the
    \* first with a tie to the second that the second does not return, and
    \* an attack due at the first hour
    {[npcs |-> ("n1" :> Prepared("tavern", UnitOne, (3 * UnitOne) \div 10,
                                 NoActivity,
                                 ("n2" :> UnitOne \div 2) @@ ("n3" :> 10100))) @@
               ("n2" :> Prepared("tavern", (9 * UnitOne) \div 10,
                                 (45 * UnitOne) \div 100, NoActivity,
                                 ("n3" :> -10000) @@
                                 ("n4" :> -(UnitOne \div 2)))),
      event_queue |-> <<AttackAt(1)>>,
      max_per_location |-> MAX_INTERACTIONS_PER_LOCATION]}

InitOver(worlds) ==
    /\ \E w \in worlds :
          /\ npcs = w.npcs
          /\ event_queue = w.event_queue
          /\ max_per_location = w.max_per_location
    /\ game_time = 0
    /\ memories = [id \in AllNpcIds |-> <<>>]
    /\ travelers = <<>>
    /\ lock = FALSE
    /\ running = NoTask
    /\ pc = [t \in Tasks |-> IF t = Runner THEN "none" ELSE "idle"]
    /\ tk = [t \in Tasks |-> NoTick]
    /\ runner = [running |-> FALSE, task |-> FALSE, ticks_completed |-> 0]
    /\ location_graph = ScenarioGraph
    /\ next_event_id = 1
    /\ submit_result = None
    /\ pop_result = None
    /\ delivered = <<>>
    /\ clock_base = 0
    /\ delta_sum = 0
    /\ ops = 0
    /\ journeys = <<>>
    /\ add_result = [npc_id |-> "", raised |-> "none", calls |-> 0]
    /\ restore_result = [data |-> <<>>, raised |-> "none", calls |-> 0,
                         next_event_id |-> 0, travelers |-> <<>>]
    /\ tier_result = None

WorldDeltas == {1, 2}
CallWorldTick == \E d \in WorldDeltas : TickCall("req1", d)

InitWorld == InitOver(Worlds)
NextWorld == CallWorldTick \/ Tick("req1")

SpecWorld == InitWorld /\ [][NextWorld]_vars

\* the crowded worlds, for as many ticks as MaxCrowdTicks
CallCrowdTick == ops < MaxCrowdTicks /\ CallWorldTick

InitCrowd == InitOver(Crowds)
NextCrowd == CallCrowdTick \/ Tick("req1")

SpecCrowd == InitCrowd /\ [][NextCrowd]_vars

-----------------------------------------------------------------------------
(* The registry alone: add_npc and remove_npc called with any of the ids,  *)
(* so that a full registry meets an id it does not hold.                    *)

NextRegistry ==
    \/ \E id \in AllNpcIds, loc \in {"tavern", "forest"} : AddNpc(id, loc)
    \/ \E id \in AllNpcIds : RemoveNpc(id)

SpecRegistry == Init /\ [][NextRegistry]_vars

-----------------------------------------------------------------------------
(* The background runner alone over a prepared world: start and stop calls *)
(* between the steps of its loop.                                            *)

NextRunner ==
    \/ StartRunner \/ StopRunner
    \/ RunnerLoop \/ RunnerCompleted \/ RunnerWake
    \/ Tick(Runner)

SpecRunner == InitWorld /\ [][NextRunner]_vars

-----------------------------------------------------------------------------
(* The schedule engine alone: one NPC of any archetype, known or not, with *)
(* an energy around the exhaustion threshold, labelled at any hour.          *)

\* ScheduleEngine.tick(npcs, game_time)
ScheduleTick(now) ==
    /\ npcs' = [id \in DOMAIN npcs |->
                  [npcs[id] EXCEPT !.activity = compute_activity(npcs[id], now)]]
    /\ UNCHANGED <<game_time, event_queue, memories, travelers, lock, running,
                   pc, tk, runner, location_graph, next_event_id,
                   submit_result, pop_result, delivered, clock_base,
                   delta_sum, ops, max_per_location, journeys, add_result,
                   restore_result, tier_result>>

SpecSchedule ==
    /\ InitOver({[npcs |-> ("n1" :> [NPCVectorialStatus("tavern") EXCEPT
                                        !.archetype = archetype,
                                        !.energy = energy]),
                   event_queue |-> <<>>,
                   max_per_location |-> MAX_INTERACTIONS_PER_LOCATION] :
                     archetype \in DOMAIN ARCHETYPE_SCHEDULES \cup {"smith"},
                     energy \in {0, UnitOne \div 20 - 1, UnitOne \div 20,
                                 UnitOne}})
    /\ [][\E now \in 0..MaxTime : ScheduleTick(now)]_vars

-----------------------------------------------------------------------------
(* dialogue/tier_selector.py: the tier chosen for a dialogue with an NPC of *)
(* an importance around the threshold, in any interaction context.           *)

IMPORTANCE_THRESHOLD == (8 * UnitOne) \div 10
TURN_ESCALATION_THRESHOLD == 3

\* a selection that sends every player-initiated dialogue the local model
\* can serve to the local model
select_tier_local_first(npc, context) ==
    IF ~context.player_initiated THEN "template"
    ELSE IF context.local_llm_available THEN "local_llm"
    ELSE "cloud_llm"

select_tier(npc, context) ==
    IF ~context.player_initiated THEN "template"
    ELSE IF \/ npc.importance >= IMPORTANCE_THRESHOLD
            \/ context.is_quest_critical
            \/ context.turn_count >= TURN_ESCALATION_THRESHOLD
    THEN "cloud_llm"
    ELSE IF context.local_llm_available THEN "local_llm"
    ELSE "cloud_llm"

\* a caller builds an InteractionContext and asks for the tier of an NPC
SelectTier(npc_id, context) ==
    /\ npc_id \in DOMAIN npcs
    /\ tier_result' = [npc_id |-> npc_id, context |-> context,
                       tier |-> select_tier(npcs[npc_id], context)]
    /\ UNCHANGED <<game_time, npcs, event_queue, memories, travelers, lock,
                   running, pc, tk, runner, location_graph, next_event_id,
                   submit_result, pop_result, delivered, clock_base,
                   delta_sum, ops, max_per_location, journeys, add_result,
                   restore_result>>

SpecTier ==
    /\ InitOver({[npcs |-> ("n1" :> [NPCVectorialStatus("tavern") EXCEPT
                                        !.importance = importance]),
                   event_queue |-> <<>>,
                   max_per_location |-> MAX_INTERACTIONS_PER_LOCATION] :
                     importance \in {0, UnitOne \div 2,
                                     IMPORTANCE_THRESHOLD - 1,
                                     IMPORTANCE_THRESHOLD, UnitOne}})
    /\ [][\E context \in [player_initiated : BOOLEAN,
                           is_quest_critical : BOOLEAN,
                           turn_count : 0..(TURN_ESCALATION_THRESHOLD + 1),
                           local_llm_available : BOOLEAN] :
             SelectTier("n1", context)]_vars

-----------------------------------------------------------------------------
(* Travel: a rested NPC and a weary one in the tavern and a rested one in a *)
(* cellar that no edge leaves, ticked as in SpecWorld.                       *)

SpecTravel ==
    /\ InitOver({[npcs |-> ("n1" :> NPCVectorialStatus("tavern")) @@
                           ("n2" :> Weary("tavern", NoActivity)) @@
                           ("n3" :> NPCVectorialStatus("cellar")),
                   event_queue |-> <<NewsAt(1)>>,
                   max_per_location |-> MAX_INTERACTIONS_PER_LOCATION]})
    /\ [][NextWorld]_vars

-----------------------------------------------------------------------------
(* Saving and restoring: a prepared world with an event waiting in its     *)
(* queue is restored from its own snapshot, from the data of a client, or   *)
(* from malformed data, and then ticked.                                     *)

Saved ==
    \* nobody, and news due at the first hour
    {[npcs |-> <<>>,
      event_queue |-> <<NewsAt(1)>>,
      max_per_location |-> MAX_INTERACTIONS_PER_LOCATION],
    \* one NPC at work in the tavern, and the same news
     [npcs |-> ("n1" :> Weary("tavern", WORKING)),
      event_queue |-> <<NewsAt(1)>>,
      max_per_location |-> MAX_INTERACTIONS_PER_LOCATION],
    \* two NPCs in the tavern, the first with a full list of recent memories,
    \* the second constructed with no activity; news due at the first hour
    \* and an event without description at the second
     [npcs |-> ("n1" :> [Weary("tavern", WORKING) EXCEPT
                            !.recent_memories =
                                <<"m0", "m1", "m2", "m3", "m4",
                                  "m5", "m6", "m7", "m8", "m9">>]) @@
               ("n2" :> Weary("tavern", NoActivity)),
      event_queue |-> <<NewsAt(1),
                        ScheduledEvent(2, WorldEvent(0, "feast", "", PERSONAL,
                                                     PERSONAL, 2, IntensityOne,
                                                     UnitOne \div 2))>>,
      max_per_location |-> MAX_INTERACTIONS_PER_LOCATION]}

\* data no snapshot() produces: a key of the dict missing, a key of an NPC
\* missing, an intention vector shorter than INTENTION_DIM
Malformed ==
    {[keys |-> {"npcs", "locations"}, game_time |-> 0,
      npcs |-> <<>>, locations |-> ScenarioGraph],
     [keys |-> {"game_time"}, game_time |-> 7,
      npcs |-> <<>>, locations |-> EmptyGraph]}
    \cup
    {[keys |-> {"game_time", "npcs"}, game_time |-> 7,
      npcs |-> ("n2" :> [keys_complete |-> complete, lengths_ok |-> lengths,
                         npc |-> NPCVectorialStatus("forest")]),
      locations |-> EmptyGraph] :
        complete \in BOOLEAN, lengths \in {FALSE}}

NextRestore ==
    \/ /\ running = NoTask
       /\ LET own == snapshot(game_time, npcs, location_graph)
          IN  \E data \in Snapshots \cup Malformed \cup
                          (IF own.raised = "none" THEN {own.data} ELSE {}) :
                 Restore(data)
    \/ CallWorldTick
    \/ Tick("req1")

SpecRestore == InitOver(Saved) /\ [][NextRestore]_vars

-----------------------------------------------------------------------------
(* The registry against its capacity: add_npc with more ids than there is  *)
(* room for, remove_npc, restore and ticks over the saved worlds.           *)

SpecCapacity ==
    /\ InitOver(Saved)
    /\ [][\/ \E id \in AllNpcIds : AddNpc(id, "tavern")
          \/ \E id \in AllNpcIds : RemoveNpc(id)
          \/ CallRestore
          \/ NextCrowd]_vars

-----------------------------------------------------------------------------
(* Properties of the manager, under Spec *)

\* a tick that holds the lock and has advanced the clock
PastAdvance(t) == InPipeline(t) /\ pc[t] # "advance"

\* deltas of the ticks that hold the lock and have not yet advanced the clock
Unapplied == LET f[S \in SUBSET Tasks] ==
                     IF S = {} THEN 0
                     ELSE LET t == CHOOSE x \in S : TRUE
                          IN  (IF pc[t] = "advance" THEN tk[t].delta_hours ELSE 0)
                                  + f[S \ {t}]
             IN  f[Tasks]

\* C1: for every tick(delta_hours) the clock after the tick is the clock
\* before it plus delta_hours, the returned TickResult.game_time is that new
\* clock, and after any sequence of ticks the clock is the initial time plus
\* the sum of the deltas.
C1_ClockAdvances ==
    /\ \A t \in Tasks :
          /\ PastAdvance(t) => game_time = tk[t].before + tk[t].delta_hours
          /\ tk[t].result # None =>
                tk[t].result.game_time = tk[t].before + tk[t].delta_hours
    /\ game_time = clock_base + delta_sum - Unapplied

\* a second tick, of four hours, has returned its result
C1_Witness ==
    \E t \in ReqTicks :
        /\ tk[t].result # None
        /\ tk[t].delta_hours = 4
        /\ tk[t].before > 0
        /\ game_time = tk[t].result.game_time

\* the order of the pipeline: which stage can follow which
StageSuccessors ==
    {<<"advance", "pop">>, <<"pop", "list">>,
     <<"list", "event_emotion">>, <<"list", "emotion_decay">>, <<"list", "return">>,
     <<"event_emotion", "event_vitality">>, <<"event_vitality", "event_social">>,
     <<"event_social", "event_memory">>,
     <<"event_memory", "event_emotion">>, <<"event_memory", "emotion_decay">>,
     <<"emotion_decay", "intentions">>, <<"intentions", "interactions">>,
     <<"interactions", "outcome_relationship">>,
     <<"interactions", "relationship_decay">>,
     <<"outcome_relationship", "outcome_costs">>,
     <<"outcome_costs", "outcome_memory">>, <<"outcome_memory", "outcome_submit">>,
     <<"outcome_submit", "outcome_relationship">>,
     <<"outcome_submit", "relationship_decay">>,
     <<"relationship_decay", "movement">>, <<"movement", "environment">>,
     <<"environment", "vitality">>, <<"vitality", "social">>,
     <<"social", "return">>}

\* C2: within one tick the stages run in the stated order, each for all NPCs
\* of the tick before the next begins: a tick leaves a stage only for the
\* next stage of the order, repeats the four per-event stages exactly while
\* due events remain and the four per-outcome stages exactly while outcomes
\* remain, skips a group only when it has nothing to process, and no other
\* task moves while a tick is between stages.
C2_StageOrder ==
    [][\A t \in Tasks :
          (InPipeline(t) /\ pc'[t] # pc[t] /\ pc[t] # "return") =>
              /\ <<pc[t], pc'[t]>> \in StageSuccessors
              /\ \A u \in Tasks \ {t} : pc'[u] = pc[u]
              /\ pc[t] = "list" =>
                    /\ pc'[t] = "return" <=> tk'[t].npcs = {}
                    /\ pc'[t] = "event_emotion" <=>
                          (tk'[t].npcs # {} /\ tk[t].due_events # <<>>)
                    /\ tk'[t].npcs = DOMAIN npcs
              /\ pc[t] = "event_memory" =>
                    (pc'[t] = "event_emotion" <=> tk[t].i < Len(tk[t].due_events))
              /\ pc[t] = "interactions" =>
                    (pc'[t] = "outcome_relationship" <=> tk'[t].outcomes # <<>>)
              /\ pc[t] = "outcome_submit" =>
                    (pc'[t] = "outcome_relationship" <=> tk[t].i < Len(tk[t].outcomes))
      ]_vars

\* a tick over a non-empty registry has delivered an event and reached its end
C2_Witness ==
    \E t \in Tasks :
        /\ pc[t] = "return"
        /\ tk[t].npcs # {}
        /\ tk[t].due_events # <<>>

\* C3: a queued event is never handed to a tick whose post-advance clock is
\* below its delivery time, is out of the queue once a tick with a clock at
\* or past its delivery time has popped, and is never delivered twice.
C3_DeliveredWhenDue ==
    /\ \A i \in 1..Len(delivered) :
          delivered[i].entry.delivery_time <= delivered[i].at
    /\ \A i, j \in 1..Len(delivered) :
          i # j => delivered[i].entry # delivered[j].entry
    /\ \A t \in Tasks :
          pc[t] = "list" =>
              /\ pop_result.now = game_time
              /\ \A k \in 1..Len(event_queue) :
                    event_queue[k].delivery_time > game_time
              /\ Len(tk[t].due_events) = Len(pop_result.popped)
              /\ \A k \in 1..Len(tk[t].due_events) :
                    /\ tk[t].due_events[k] = pop_result.popped[k].event
                    /\ pop_result.popped[k].delivery_time <= game_time
                    /\ delivered[Len(delivered) - Len(tk[t].due_events) + k].entry
                          = pop_result.popped[k]

\* a tick has just popped a propagated copy and left later copies queued
C3_Witness ==
    \E t \in Tasks :
        /\ pc[t] = "list"
        /\ \E k \in 1..Len(tk[t].due_events) :
              tk[t].due_events[k].current_scale = FAMILY
        /\ event_queue # <<>>

\* C4: the pipelines of ticks in flight at once never interleave: at most one
\* tick is between acquiring and releasing the lock, it holds the lock and is
\* the one task running, and once no tick is in its pipeline the clock is the
\* initial clock plus the sum of the deltas of all the ticks that ran.
C4_TicksSerialised ==
    /\ \A t, u \in Tasks : (InPipeline(t) /\ InPipeline(u)) => t = u
    /\ \A t \in Tasks : InPipeline(t) => (lock /\ running = t)
    /\ (\A t \in Tasks : ~InPipeline(t)) =>
          (~lock /\ game_time = clock_base + delta_sum)

\* one task's tick is in its pipeline while another task's tick waits for
\* its turn
C4_Witness ==
    \E t, u \in Tasks :
        /\ t # u
        /\ PastAdvance(t)
        /\ pc[u] = "acquire"

\* C5: NPC creation and removal, event submission and restore never take
\* effect between two stages of a tick in flight: a step that is not the
\* tick's own leaves the registry, the queue, the clock and the graph alone.
C5_Serialised ==
    [][\A t \in Tasks :
          (InPipeline(t) /\ pc'[t] = pc[t]) =>
              /\ DOMAIN npcs' = DOMAIN npcs
              /\ event_queue' = event_queue
              /\ game_time' = game_time
              /\ location_graph' = location_graph
      ]_vars

\* C6: a tick that has taken the lock and advanced the clock is the running
\* task until it returns: it is not suspended, it is not cancelled (stop()
\* of the runner included), and no caller acts before its last stage is done.
C6_TickRunsToCompletion ==
    [][\A t \in Tasks :
          PastAdvance(t) =>
              /\ running = t
              /\ pc[t] # "return" => (PastAdvance(t))'
              /\ pc'[t] # pc[t]
              /\ ops' = ops
              /\ runner' = runner
      ]_vars

\* the runner was stopped after its task had completed a tick
C6_Witness ==
    /\ ~runner.running
    /\ runner.ticks_completed >= 1
    /\ pc[Runner] = "none"

-----------------------------------------------------------------------------
(* Properties of the event queue and the propagator, under SpecEvents *)

\* C7: pop_due(now) removes and returns exactly the queued entries whose
\* delivery_time is at most now, in non-decreasing delivery-time order,
\* leaves every entry with a later delivery_time in the queue, and returns
\* the empty list when the queue is empty or nothing is due.
C7_PopDueExact ==
    pop_result # None =>
        LET r == pop_result
        IN  /\ \A x \in Range(r.before) :
                  Count(r.before, x) = Count(r.popped, x) + Count(r.after, x)
            /\ Len(r.before) = Len(r.popped) + Len(r.after)
            /\ \A i \in 1..Len(r.popped) : r.popped[i].delivery_time <= r.now
            /\ \A i \in 1..Len(r.after) : r.after[i].delivery_time > r.now
            /\ \A i \in 1..(Len(r.popped) - 1) :
                  r.popped[i].delivery_time <= r.popped[i + 1].delivery_time
            /\ Len(r.due) = Len(r.popped)
            /\ \A i \in 1..Len(r.due) : r.due[i] = r.popped[i].event
            /\ (\A i \in 1..Len(r.before) : r.before[i].delivery_time > r.now)
                  => r.due = <<>>

\* a pop_due that returned two entries of different delivery times and left
\* one behind
C7_Witness ==
    /\ pop_result # None
    /\ Len(pop_result.popped) >= 2
    /\ pop_result.popped[1].delivery_time < pop_result.popped[2].delivery_time
    /\ pop_result.after # <<>>

\* C8 as stated: every event submitted with origin scale PERSONAL and
\* intensity at least 0.02 gets at least 4 deliveries.
C8_Original ==
    (/\ submit_result # None
     /\ submit_result.event.origin_scale = PERSONAL
     /\ submit_result.event.intensity >= INTENSITY_THRESHOLD)
        => submit_result.count >= 4

\* C8, amended: every event submitted at current scale PERSONAL with
\* intensity at least 0.17 gets at least 4 deliveries, the first four at
\* PERSONAL, FAMILY, CITY and REGIONAL.
C8_FourDeliveries ==
    (/\ submit_result # None
     /\ submit_result.event.current_scale = PERSONAL
     /\ submit_result.event.intensity >= (17 * IntensityOne) \div 100)
        => /\ submit_result.count >= 4
           /\ Len(submit_result.pushed) >= 4
           /\ \A k \in 1..4 :
                 submit_result.pushed[k].event.current_scale = PERSONAL + (k - 1)

\* an event of intensity 0.17 at PERSONAL was submitted: 4 deliveries
C8_Witness ==
    /\ submit_result # None
    /\ submit_result.event.current_scale = PERSONAL
    /\ submit_result.event.intensity = (17 * IntensityOne) \div 100
    /\ submit_result.count = 4

\* C9: submit ends; the cascade stops at the first event that is at GLOBAL,
\* is below 0.02, has no rule or would attenuate below 0.02; the count is 1
\* plus the number of copies, is the number of entries added to the queue,
\* is at most 6, and is 1 for an event below 0.02 or at GLOBAL.
C9_SubmitCount ==
    submit_result # None =>
        LET r == submit_result
            n == Len(r.pushed)
            goes_on(e) ==
                /\ e.current_scale < GLOBAL
                /\ e.intensity >= INTENSITY_THRESHOLD
                /\ <<e.current_scale, e.current_scale + 1>> \in DOMAIN PROPAGATION_RULES
                /\ LET rule == PROPAGATION_RULES[<<e.current_scale, e.current_scale + 1>>]
                   IN  e.intensity * rule[2] >= INTENSITY_THRESHOLD * rule[3]
        IN  /\ r.count = 1 + (n - 1)
            /\ Len(r.after) = Len(r.before) + r.count
            /\ r.count <= 6
            /\ (r.event.intensity < INTENSITY_THRESHOLD
                    \/ r.event.current_scale = GLOBAL) => r.count = 1
            /\ \A k \in 1..(n - 1) : goes_on(r.pushed[k].event)
            /\ ~goes_on(r.pushed[n].event)

\* a submission that went through all six scales
C9_Witness == submit_result # None /\ submit_result.count = 6

\* C10: the original is queued at its own timestamp, scale and intensity
\* unchanged; every copy is one scale broader than its predecessor, has the
\* predecessor's intensity times the table attenuation, and has timestamp
\* and delivery time equal to the predecessor's timestamp plus the table
\* delay; delivery times strictly increase, intensities never increase.
C10_CascadeShape ==
    submit_result # None =>
        LET r == submit_result
        IN  /\ r.pushed[1] = ScheduledEvent(r.event.timestamp, r.event)
            /\ SubSeq(r.after, Len(r.before) + 1, Len(r.after)) = r.pushed
            /\ \A k \in 2..Len(r.pushed) :
                  LET prev == r.pushed[k - 1].event
                      cur == r.pushed[k].event
                      rule == PROPAGATION_RULES[<<prev.current_scale,
                                                  cur.current_scale>>]
                  IN  /\ cur.current_scale = prev.current_scale + 1
                      /\ cur.intensity * rule[3] = prev.intensity * rule[2]
                      /\ cur.timestamp = prev.timestamp + rule[1]
                      /\ r.pushed[k].delivery_time = cur.timestamp
                      /\ r.pushed[k].delivery_time > r.pushed[k - 1].delivery_time
                      /\ cur.intensity <= prev.intensity
                      /\ cur.event_id = prev.event_id
                      /\ cur.origin_scale = prev.origin_scale

\* a cascade of an event submitted at a non-zero timestamp with three copies
C10_Witness ==
    /\ submit_result # None
    /\ submit_result.event.timestamp = 3
    /\ Len(submit_result.pushed) >= 4

-----------------------------------------------------------------------------
(* Properties of submit_event, under Spec *)

\* C11: submit_event sets the event's timestamp to the current game time if
\* and only if its timestamp is zero, and otherwise leaves it unchanged; the
\* call returns a count of scheduled deliveries that is at least 1, the
\* event is queued at its (stamped) timestamp and nothing else of the event
\* is changed.
C11_SubmitEventStamps ==
    submit_result # None =>
        LET r == submit_result
        IN  /\ r.arg.timestamp = 0 => r.event.timestamp = r.now
            /\ r.arg.timestamp # 0 => r.event.timestamp = r.arg.timestamp
            /\ r.event = [r.arg EXCEPT !.timestamp = r.event.timestamp]
            /\ r.count >= 1
            /\ r.count = Len(r.after) - Len(r.before)
            /\ r.pushed[1] = ScheduledEvent(r.event.timestamp, r.event)

\* an event with timestamp zero was submitted after the clock had advanced,
\* and an event with its own timestamp is already queued unstamped
C11_Witness ==
    /\ submit_result # None
    /\ submit_result.arg.timestamp = 0
    /\ submit_result.now > 0
    /\ submit_result.event.timestamp = submit_result.now
    /\ \E k \in 1..Len(event_queue) :
          /\ event_queue[k].event.event_type = "murder"
          /\ event_queue[k].event.timestamp = 3
          /\ event_queue[k].delivery_time = 3

-----------------------------------------------------------------------------
(* Properties of movement, under SpecWorld *)

\* task t's step is its movement stage
MovementStep(t) == pc[t] = "movement" /\ pc'[t] = "environment"

\* C12: every NPC is either stationary or traveling with one travel state;
\* a traveling NPC whose journey is not over is never given a new journey;
\* an NPC's travel state and location change in a movement stage only, a
\* stationary NPC becomes traveling by a departure at the stage's clock from
\* where it is, a traveling NPC becomes stationary by an arrival at its
\* destination, and a travel state is replaced only by an arrival followed
\* by a departure from the destination.
C12_TwoStateMachine ==
    [][\A n \in DOMAIN npcs \cap DOMAIN npcs' :
          LET was == n \in DOMAIN travelers
              is == n \in DOMAIN travelers'
              before == travelers[n]
              after == travelers'[n]
              moved == \/ was # is
                       \/ was /\ is /\ after # before
                       \/ npcs'[n].location_id # npcs[n].location_id
          IN  /\ moved => \E t \in Tasks : MovementStep(t) /\ n \in tk[t].npcs
              /\ (was /\ before.arrival_time > game_time) =>
                    /\ is /\ after = before
                    /\ npcs'[n].location_id = npcs[n].location_id
              /\ (~was /\ is) =>
                    /\ after.npc_id = n
                    /\ after.departure_time = game_time
                    /\ after.origin_id = npcs[n].location_id
                    /\ npcs'[n].location_id = npcs[n].location_id
              /\ (was /\ ~is) =>
                    /\ before.arrival_time <= game_time
                    /\ npcs'[n].location_id = before.destination_id
              /\ (was /\ is /\ after # before) =>
                    /\ before.arrival_time <= game_time
                    /\ after.departure_time = game_time
                    /\ after.origin_id = before.destination_id
                    /\ npcs'[n].location_id = before.destination_id
              /\ (~was /\ ~is) => npcs'[n].location_id = npcs[n].location_id
      ]_vars

\* a movement stage has just passed over an NPC in the middle of its journey,
\* after another NPC had travelled and arrived
C12_Witness ==
    /\ pc["req1"] = "environment"
    /\ \E n \in DOMAIN travelers :
          /\ travelers[n].departure_time < game_time
          /\ travelers[n].arrival_time > game_time
    /\ \E m \in DOMAIN npcs \ DOMAIN travelers :
          /\ npcs[m].location_id = "forest"
          /\ \E k \in 1..Len(journeys) : journeys[k].npc_id = m

\* C13: in the movement stage run at clock now, every travel state with
\* arrival_time at most now is removed and its NPC is located at the
\* destination; an NPC whose travel state has a later arrival_time keeps
\* its travel state and its origin as location; after the stage no travel
\* state with arrival_time at most now remains.
C13_Arrivals ==
    [][\A t \in Tasks :
          MovementStep(t) =>
              /\ \A n \in DOMAIN travelers :
                    IF travelers[n].arrival_time <= game_time
                    THEN /\ n \in DOMAIN travelers' => travelers'[n] # travelers[n]
                         /\ n \in tk[t].npcs \cap DOMAIN npcs =>
                               npcs'[n].location_id = travelers[n].destination_id
                    ELSE /\ n \in DOMAIN travelers'
                         /\ travelers'[n] = travelers[n]
                         /\ n \in DOMAIN npcs =>
                               /\ npcs'[n].location_id = npcs[n].location_id
                               /\ npcs'[n].location_id = travelers[n].origin_id
              /\ \A n \in DOMAIN travelers' :
                    travelers'[n].arrival_time > game_time
      ]_vars

\* a movement stage has just landed an NPC whose arrival time fell between
\* the clock before the tick and the clock of the stage
C13_Witness ==
    /\ pc["req1"] = "environment"
    /\ \E k \in 1..Len(journeys) :
          LET j == journeys[k]
          IN  /\ j.arrival_time < game_time
              /\ j.arrival_time > tk["req1"].before
              /\ j.npc_id \notin DOMAIN travelers
              /\ npcs[j.npc_id].location_id = j.destination_id

\* a tick has returned and nothing is in flight
AfterTick == pc["req1"] = "idle" /\ tk["req1"].result # None

\* the journeys of the scenario: begun in a first tick(1.0) of a manager
\* started at game time 0, from the tavern to the forest
FirstTickJourneys ==
    {j \in Range(journeys) : /\ clock_base = 0
                              /\ j.departure_time = 1
                              /\ j.origin_id = "tavern"
                              /\ j.destination_id = "forest"}

\* C14 as stated: an NPC that departs during the first tick(1.0) is in
\* transit after that tick and is located at the forest after the second
\* tick(1.0), with energy below 1.0.
C14_Original ==
    \A j \in FirstTickJourneys :
        AfterTick =>
            /\ game_time = 1 => j.npc_id \in DOMAIN travelers
            /\ game_time = 2 => /\ npcs[j.npc_id].location_id = "forest"
                                /\ npcs[j.npc_id].energy < UnitOne

\* C14, amended: an NPC that departs during the first tick(1.0), at clock 1
\* over the edge of 2 hours, is in transit and still located at the tavern
\* after that tick and after the second tick(1.0); it is located at the
\* forest after the tick that brings the clock to 3; its energy is below 1.0
\* after each of these ticks.
C14_TransitThenArrival ==
    \A j \in FirstTickJourneys :
        AfterTick =>
            /\ j.arrival_time = 3
            /\ game_time \in {1, 2} =>
                  /\ j.npc_id \in DOMAIN travelers
                  /\ travelers[j.npc_id] = j
                  /\ npcs[j.npc_id].location_id = "tavern"
                  /\ npcs[j.npc_id].energy < UnitOne
            /\ game_time = 3 =>
                  /\ npcs[j.npc_id].location_id = "forest"
                  /\ npcs[j.npc_id].energy < UnitOne
                  /\ j.npc_id \in DOMAIN travelers =>
                        travelers[j.npc_id].departure_time = 3

\* three ticks of one hour have run and the NPC that left in the first is
\* at the forest
C14_Witness ==
    /\ AfterTick
    /\ game_time = 3
    /\ ops = 3
    /\ \E j \in FirstTickJourneys :
          /\ npcs[j.npc_id].location_id = "forest"
          /\ j.npc_id \notin DOMAIN travelers

\* C15: no NPC starts a journey to a destination that is at capacity: for a
\* destination with capacity greater than 0, a departure toward it happens
\* only if the number of NPCs at that destination when the departure is
\* decided (after the arrivals of the stage; a departure leaves location_id
\* alone) is below its capacity.
C15_NoDepartureToFullDestination ==
    [][\A t \in Tasks : MovementStep(t) =>
          LET departing ==
                  {id \in DOMAIN travelers' :
                      /\ travelers'[id].departure_time = game_time
                      /\ id \in DOMAIN travelers =>
                            travelers[id] # travelers'[id]}
              present(loc) ==
                  {id \in DOMAIN npcs' : npcs'[id].location_id = loc}
          IN  \A id \in departing :
                 LET dest_id == travelers'[id].destination_id
                     dest == get_location(location_graph, dest_id)
                 IN  (dest # None /\ dest.capacity > 0) =>
                        Cardinality(present(dest_id)) < dest.capacity]_vars

-----------------------------------------------------------------------------
(* Properties of the interaction stage, under SpecCrowd.                    *)

\* the tick of task t has run its interaction stage and not yet returned:
\* tk[t].outcomes are the outcomes of this tick
HasOutcomes(t) ==
    pc[t] \in {"outcome_relationship", "outcome_costs", "outcome_memory",
               "outcome_submit", "relationship_decay", "movement",
               "environment", "vitality", "social", "return"}

\* C16: among the outcomes produced by the interaction stage of one tick, no
\* NPC id appears in more than one outcome (as either participant), and
\* every outcome's event timestamp equals that tick's post-advance clock.
C16_OneOutcomePerNpc ==
    \A t \in Tasks : HasOutcomes(t) =>
        LET out == tk[t].outcomes
        IN  /\ \A k \in DOMAIN out : out[k].npc_a_id # out[k].npc_b_id
            /\ \A k, l \in DOMAIN out :
                  k # l => {out[k].npc_a_id, out[k].npc_b_id}
                             \cap {out[l].npc_a_id, out[l].npc_b_id} = {}
            /\ \A k \in DOMAIN out :
                  /\ out[k].event.timestamp = tk[t].before + tk[t].delta_hours
                  /\ out[k].event.timestamp = game_time

\* four NPCs at one location have been resolved into two outcomes
C16_Witness ==
    /\ pc["req1"] = "outcome_relationship"
    /\ Len(tk["req1"].outcomes) = 2
    /\ game_time > 0

\* C17: the interaction stage produces outcomes only for pairs of NPCs that
\* share a location, never includes an NPC whose activity is sleeping or
\* whose energy is below the configured minimum, and produces at most
\* max_interactions_per_location outcomes per location per tick.  Stated
\* where the stage has just returned, the NPCs being as the stage saw them.
C17_OnlyAwakeCoLocatedPairs ==
    \A t \in Tasks :
        (pc[t] = "outcome_relationship" /\ tk[t].i = 1) =>
            LET out == tk[t].outcomes
                loc(k) == npcs[out[k].npc_a_id].location_id
            IN  /\ \A k \in DOMAIN out :
                      /\ {out[k].npc_a_id, out[k].npc_b_id} \subseteq Live(t)
                      /\ npcs[out[k].npc_b_id].location_id = loc(k)
                      /\ \A id \in {out[k].npc_a_id, out[k].npc_b_id} :
                            /\ npcs[id].activity # SLEEPING
                            /\ npcs[id].energy >= MIN_ENERGY_FOR_INTERACTION
                /\ \A k \in DOMAIN out :
                      Cardinality({l \in DOMAIN out : loc(l) = loc(k)})
                          <= max_per_location

\* a pair has been resolved beside a sleeper of the same location, or under
\* a limit of one outcome at a location of four NPCs
C17_Witness ==
    /\ pc["req1"] = "outcome_relationship"
    /\ tk["req1"].i = 1
    /\ LET out == tk["req1"].outcomes
       IN  /\ Len(out) = 1
           /\ \/ \E id \in DOMAIN npcs :
                    /\ npcs[id].activity = SLEEPING
                    /\ npcs[id].location_id = npcs[out[1].npc_a_id].location_id
              \/ /\ max_per_location = 1
                 /\ Cardinality({id \in DOMAIN npcs : npcs[id].location_id
                                   = npcs[out[1].npc_a_id].location_id}) = 4

-----------------------------------------------------------------------------
(* Properties of the relationship and vitality engines, under SpecWorld.    *)

\* C18: after apply_delta(a, b, delta), for any prior stored affinities and
\* any delta, a's stored affinity toward b equals b's stored affinity toward
\* a, and both values lie in [-1, 1].  Stated where the pipeline has just
\* applied the delta of the current outcome.
C18_SymmetricAfterDelta ==
    \A t \in Tasks :
        (pc[t] = "outcome_costs" /\ BothRegistered(CurrentOutcome(t))) =>
            LET a == CurrentOutcome(t).npc_a_id
                b == CurrentOutcome(t).npc_b_id
            IN  /\ b \in DOMAIN npcs[a].relationships
                /\ a \in DOMAIN npcs[b].relationships
                /\ npcs[a].relationships[b] = npcs[b].relationships[a]
                /\ npcs[a].relationships[b] \in -UnitOne..UnitOne
                /\ npcs[b].relationships[a] \in -UnitOne..UnitOne

RelationshipDecayStep(t) ==
    pc[t] = "relationship_decay" /\ pc'[t] = "movement"

\* C19: after relationship decay over the NPCs of a tick, none of them
\* stores an affinity whose absolute value is below 0.01, and every retained
\* affinity equals its previous value multiplied by (1 - decay_rate), that
\* is 0.99 of it to the precision of the stored value; an affinity is
\* dropped only when its decayed value is below 0.01 in absolute value.
C19_DecayPrunes ==
    [][\A t \in Tasks : RelationshipDecayStep(t) =>
          \A id \in Live(t) :
             LET old == npcs[id].relationships
                 new == npcs'[id].relationships
             IN  /\ DOMAIN new \subseteq DOMAIN old
                 /\ \A o \in DOMAIN new :
                       /\ Abs(new[o]) >= UnitOne \div 100
                       /\ 100 * new[o] <= 99 * old[o]
                       /\ 99 * old[o] < 100 * new[o] + 100
                 /\ \A o \in DOMAIN old \ DOMAIN new :
                       /\ 99 * old[o] < 100 * (UnitOne \div 100)
                       /\ 99 * old[o] >= -100 * (UnitOne \div 100) + 100
       ]_vars

\* the decay stage has just kept a strong tie, weakened, and dropped ties
\* whose decayed value fell below 0.01
C19_Witness ==
    /\ pc["req1"] = "movement"
    /\ "n1" \in DOMAIN npcs /\ "n2" \in DOMAIN npcs
    /\ \E o \in DOMAIN npcs["n2"].relationships :
          npcs["n2"].relationships[o] = -495000
    /\ "n3" \notin DOMAIN npcs["n1"].relationships
    /\ "n3" \notin DOMAIN npcs["n2"].relationships
    /\ game_time = tk["req1"].delta_hours

\* C20: at the end of every tick, every registered NPC whose health is below
\* 0.5 has energy at most health / 0.5.
C20_HealthCapsEnergy ==
    \A t \in Tasks :
        (pc[t] = "return" \/ (pc[t] = "idle" /\ tk[t].result # None)) =>
            \A id \in DOMAIN npcs :
                npcs[id].health < UnitOne \div 2 =>
                    npcs[id].energy <= 2 * npcs[id].health

\* a tick is about to return with a hurt NPC held exactly at its cap
C20_Witness ==
    /\ pc["req1"] = "return"
    /\ \E id \in DOMAIN npcs :
          /\ npcs[id].health > 0
          /\ npcs[id].health < UnitOne \div 2
          /\ npcs[id].energy = 2 * npcs[id].health

-----------------------------------------------------------------------------
(* Properties of the whole tick, under SpecWorld.                           *)

\* C21: after every tick each registered NPC's activity label is sleeping
\* if its energy is below 0.05 and otherwise the label of its schedule's
\* slot containing the new game time mod 24, whatever its activity was.
C21_ActivityFollowsSchedule ==
    AfterTick =>
        \A id \in DOMAIN npcs :
            npcs[id].activity = compute_activity(npcs[id], game_time)

-----------------------------------------------------------------------------
(* Properties of the tick's result and of the registry, under Spec.         *)

\* the tick of task t returns its result
Returns(t) == pc[t] = "return" /\ pc'[t] # "return"

\* C22 as stated: a tick executed while the registry is empty skips stages
\* 3 to 12 and returns a result whose counters (NPCs updated, events
\* delivered, interactions resolved, NPCs moved) are all zero, whatever the
\* event queue holds.
C22_Original ==
    [][\A t \in Tasks :
          /\ (pc[t] = "list" /\ pc'[t] # "list" /\ DOMAIN npcs = {}) =>
                pc'[t] = "return"
          /\ (Returns(t) /\ tk[t].npcs = {}) =>
                /\ tk'[t].result.npcs_updated = 0
                /\ tk'[t].result.events_delivered = 0
                /\ tk'[t].result.interactions_resolved = 0
                /\ tk'[t].result.npcs_moved = 0]_vars

\* C22, amended: a tick executed while the registry is empty skips stages
\* 3 to 12, changing no NPC, memory or travel state, and returns a result
\* whose counters NPCs updated, interactions resolved and NPCs moved are
\* zero, while events delivered is the number of due events stage 2 popped
\* (zero exactly when no event of the queue was due).
C22_EmptyTick ==
    [][\A t \in Tasks :
          /\ (pc[t] = "list" /\ pc'[t] # "list" /\ DOMAIN npcs = {}) =>
                /\ pc'[t] = "return"
                /\ UNCHANGED <<npcs, memories, travelers, event_queue>>
          /\ (Returns(t) /\ tk[t].npcs = {}) =>
                /\ tk'[t].result.npcs_updated = 0
                /\ tk'[t].result.events_delivered = Len(tk[t].due_events)
                /\ tk'[t].result.interactions_resolved = 0
                /\ tk'[t].result.npcs_moved = 0
                /\ tk'[t].result.game_time = game_time
                /\ tk'[t].result.events_pending = Len(event_queue)]_vars

\* a tick over an empty registry has returned after popping a due event
C22_Witness ==
    \E t \in Tasks :
        /\ pc[t] = "idle"
        /\ tk[t].result # None
        /\ tk[t].result.npcs_updated = 0
        /\ tk[t].result.events_delivered > 0
        /\ tk[t].result.interactions_resolved = 0
        /\ tk[t].result.npcs_moved = 0
        /\ DOMAIN npcs = {}

-----------------------------------------------------------------------------
(* Properties of the tick's result, under SpecWorld.                        *)

\* C23: for every tick, events_delivered is the number of events popped
\* from the queue in that tick; events_pending is the queue length when the
\* tick ends, and is the length before the tick, less events_delivered, plus
\* the deliveries scheduled for this tick's interaction outcomes;
\* npcs_updated is the registry size; interactions_resolved is the number
\* of outcomes; npcs_moved is the number of journeys started in the tick.
C23_ResultCounts ==
    [][\A t \in Tasks : Returns(t) =>
          LET r == tk'[t].result
              out == tk[t].outcomes
              scheduled == SeqSum([k \in DOMAIN out |->
                                      submit(<<>>, out[k].event).count])
              started == {k \in DOMAIN journeys :
                             journeys[k].departure_time = game_time}
          IN  /\ pop_result.now = game_time
              /\ r.game_time = game_time
              /\ r.events_delivered = Len(pop_result.popped)
              /\ event_queue' = event_queue
              /\ r.events_pending = Len(event_queue)
              /\ r.events_pending =
                    Len(pop_result.before) - r.events_delivered + scheduled
              /\ r.npcs_updated = Cardinality(DOMAIN npcs)
              /\ r.interactions_resolved = Len(out)
              /\ r.npcs_moved = Cardinality(started)]_vars

\* a tick has returned that delivered an event, resolved an interaction and
\* saw an NPC depart
C23_Witness ==
    /\ AfterTick
    /\ tk["req1"].result.events_delivered > 0
    /\ tk["req1"].result.interactions_resolved > 0
    /\ tk["req1"].result.npcs_moved > 0
    /\ tk["req1"].result.events_pending > 0
    /\ tk["req1"].result.npcs_updated = 2

-----------------------------------------------------------------------------
(* Properties of the registry, under SpecRegistry.                          *)

-----------------------------------------------------------------------------
(* Properties of snapshot and restore, under SpecRestore *)

\* C25: restore replaces the NPC registry, the game clock and the location
\* graph with the contents of the snapshot and leaves the event queue empty:
\* right after the restore of well-formed data nothing is pending, and no
\* event submitted before the restore is delivered by a later tick.
C25_RestoreReplaces ==
    [][LET WellFormed(data) ==
               /\ {"game_time", "npcs"} \subseteq data.keys
               /\ \A id \in DOMAIN data.npcs :
                     /\ data.npcs[id].keys_complete
                     /\ data.npcs[id].lengths_ok
           data == restore_result'.data
       IN  /\ (restore_result'.calls = restore_result.calls + 1
                    /\ WellFormed(data))
                => /\ restore_result'.raised = "none"
                   /\ game_time' = data.game_time
                   /\ DOMAIN npcs' = DOMAIN data.npcs
                   /\ \A id \in DOMAIN data.npcs :
                         npcs'[id] = data.npcs[id].npc
                   /\ "locations" \in data.keys
                         => location_graph' = data.locations
                   /\ event_queue' = <<>>
           /\ (restore_result.calls > 0 /\ restore_result' = restore_result
                    /\ WellFormed(restore_result.data))
                => \A k \in (Len(delivered) + 1)..Len(delivered') :
                      delivered'[k].entry.event.event_id
                          >= restore_result.next_event_id]_vars

\* C26: restoring the snapshot of a world yields a world equal to it: the same
\* game time, the same NPC ids, every NPC equal in its vectors, energy,
\* health, location, activity, relationships and recent memories, and an
\* equal location graph.
C26_RoundTrip ==
    [][LET own == snapshot(game_time, npcs, location_graph)
       IN  /\ own.raised = "none"
           /\ (restore_result'.calls = restore_result.calls + 1
                    /\ restore_result'.data = own.data)
                => /\ restore_result'.raised = "none"
                   /\ game_time' = game_time
                   /\ npcs' = npcs
                   /\ location_graph' = location_graph]_vars

\* C27: a restore that fails, because a required key is missing or an NPC
\* entry is malformed, leaves the manager as it was before the call: the same
\* game time, NPC registry, event queue and location graph.
C27_FailedRestoreChangesNothing ==
    [][(restore_result'.calls = restore_result.calls + 1
            /\ restore_result'.raised # "none")
          => UNCHANGED <<game_time, npcs, event_queue, location_graph>>]_vars

\* C28: restore rejects with an error every snapshot in which a vector of
\* some NPC has a length other than its declared dimension, and no such NPC
\* enters the registry.
C28_BadDimensionsRejected ==
    [][LET data == restore_result'.data
           short == {id \in DOMAIN data.npcs : ~data.npcs[id].lengths_ok}
       IN  (restore_result'.calls = restore_result.calls + 1 /\ short # {})
              => /\ restore_result'.raised # "none"
                 /\ short \cap DOMAIN npcs' = {}]_vars

\* a snapshot whose only flaw is a short vector has been refused
C28_Witness ==
    /\ restore_result.calls > 0
    /\ restore_result.raised = "TypeError"
    /\ {"game_time", "npcs"} \subseteq restore_result.data.keys
    /\ \E id \in DOMAIN restore_result.data.npcs :
          /\ restore_result.data.npcs[id].keys_complete
          /\ ~restore_result.data.npcs[id].lengths_ok
    /\ npcs = <<>>

-----------------------------------------------------------------------------
(* Frame of the tick and memories, under Spec *)

\* C29: a tick never adds an NPC to the registry nor removes one from it, and
\* leaves the id, name, archetype, importance and personality of every NPC as
\* they were before the tick (the id is the key the registry holds the NPC
\* under).
C29_TickKeepsIdentity ==
    [][(\E t \in Tasks : Tick(t))
          => /\ DOMAIN npcs' = DOMAIN npcs
             /\ \A id \in DOMAIN npcs :
                   /\ npcs'[id].name = npcs[id].name
                   /\ npcs'[id].archetype = npcs[id].archetype
                   /\ npcs'[id].importance = npcs[id].importance
                   /\ npcs'[id].personality = npcs[id].personality]_vars

\* a tick has run to its end over two NPCs and has moved their emotions
C29_Witness ==
    /\ \E t \in Tasks : pc[t] = "idle" /\ tk[t].result # None
    /\ DOMAIN npcs = NpcIds
    /\ \A id \in NpcIds : npcs[id].emotion > 0

-----------------------------------------------------------------------------
(* Memories, under SpecRestore *)

\* C30: the list of recent memories of an NPC holds at most
\* MAX_RECENT_MEMORIES descriptions, the most recently appended ones in the
\* order they were appended; a delivered event or an interaction appends its
\* description to the list, and one entry to the memory store, only when the
\* description is not empty; and the entries of the store are never changed
\* or deleted.
C30_RecentMemories ==
    [][\A id \in DOMAIN memories :
          LET old == memories[id]
              new == memories'[id]
          IN  /\ Len(old) <= Len(new) /\ Len(new) <= Len(old) + 1
              /\ SubSeq(new, 1, Len(old)) = old
              /\ Len(new) > Len(old) => new[Len(new)].event_text # ""
              /\ (id \in DOMAIN npcs /\ id \in DOMAIN npcs')
                    => LET before == npcs[id].recent_memories
                           after == npcs'[id].recent_memories
                           all == Append(before, new[Len(new)].event_text)
                       IN  /\ Len(after) <= MAX_RECENT_MEMORIES
                           /\ IF Len(new) = Len(old) THEN after = before
                              ELSE IF Len(all) <= MAX_RECENT_MEMORIES
                              THEN after = all
                              ELSE after = SubSeq(all,
                                             Len(all) - MAX_RECENT_MEMORIES + 1,
                                             Len(all))]_vars

\* a full list has taken one more description and dropped its oldest, and an
\* event without description has been delivered since without a trace
C30_Witness ==
    /\ "n1" \in DOMAIN npcs
    /\ npcs["n1"].recent_memories =
           <<"m1", "m2", "m3", "m4", "m5", "m6", "m7", "m8", "m9", "news">>
    /\ Len(memories["n1"]) = 1
    /\ \E k \in 1..Len(delivered) : delivered[k].entry.event.description = ""
    /\ pc["req1"] = "idle"

-----------------------------------------------------------------------------
(* Properties of the background runner, under SpecRunner *)

\* C31: over any sequence of start and stop calls at most one loop task
\* exists: a start while running fails and creates no second task, a stop
\* while not running does nothing, running is true exactly from a successful
\* start to the next stop, and after a stop the runner makes no further tick
\* until it is started again.
C31_OneLoopTask ==
    [][/\ runner.running <=> pc[Runner] # "none"
       /\ runner.running <=> runner.task
       /\ (StartRunner /\ runner.running) => UNCHANGED <<runner, pc, tk>>
       /\ (StartRunner /\ ~runner.running)
             => runner'.running /\ pc'[Runner] = "created"
       /\ (StopRunner /\ ~runner.running) => UNCHANGED <<runner, pc, lock>>
       /\ (StopRunner /\ runner.running) => ~runner'.running
       /\ runner'.running # runner.running => StartRunner \/ StopRunner
       /\ ~runner.running
             => ~RunnerLoop /\ ~Tick(Runner) /\ ~RunnerCompleted]_vars

\* a start has been refused while the task of an earlier start was asleep
\* after its first tick
C31_Witness ==
    /\ runner.running
    /\ runner.ticks_completed = 1
    /\ pc[Runner] = "sleep"
    /\ ops = MaxOps

\* C32: the runner loops sleep-then-tick: after start it sleeps one interval
\* before its first tick, every later tick is preceded by one sleep, and
\* every background tick advances the clock by the configured delta_hours.
C32_Original ==
    [][/\ (pc'[Runner] = "acquire" /\ pc[Runner] # "acquire")
             => pc[Runner] = "loop"
       /\ (pc'[Runner] = "loop" /\ pc[Runner] # "loop") => pc[Runner] = "sleep"
       /\ TickAdvance(Runner)
             => game_time' = game_time + BACKGROUND_TICK_DELTA_HOURS]_vars

\* C32 as the loop is written, tick-then-sleep: the first tick starts when
\* the task first runs after start, with no sleep before it; every tick that
\* ends is followed by one sleep, and every later tick starts from the end of
\* such a sleep; every background tick advances the clock by the configured
\* delta_hours.
C32_TickThenSleep ==
    [][/\ (pc'[Runner] = "acquire" /\ pc[Runner] # "acquire")
             => \/ pc[Runner] = "created" /\ runner.ticks_completed = 0
                \/ pc[Runner] = "loop" /\ runner.ticks_completed > 0
       /\ (pc[Runner] = "created" /\ pc'[Runner] # "created")
             => pc'[Runner] \in {"acquire", "none"}
       /\ (pc[Runner] = "completed" /\ pc'[Runner] # "completed")
             => pc'[Runner] \in {"sleep", "none"}
       /\ (pc'[Runner] = "loop" /\ pc[Runner] # "loop") => pc[Runner] = "sleep"
       /\ TickAdvance(Runner)
             => game_time' = game_time + BACKGROUND_TICK_DELTA_HOURS]_vars

\* the runner is in its second tick, after one tick and one sleep
C32_Witness ==
    /\ runner.ticks_completed = 1
    /\ InPipeline(Runner)
    /\ game_time = 2 * BACKGROUND_TICK_DELTA_HOURS

-----------------------------------------------------------------------------
(* Properties of the schedule engine, under SpecSchedule *)

\* C33: for every archetype, known or not, and every game time from 0 on,
\* compute_activity gives sleeping when the energy is below 0.05 and else
\* the label of the one slot of the archetype's table that holds the hour of
\* the day; every table splits the day from 0 to 24 into slots that follow
\* one another without gap or overlap, so the fallback label is never
\* needed; soldier has the table of guard, bard that of artist, and an
\* unknown archetype the default table.
C33_ActivityOfSlot ==
    [][\A now \in 0..MaxTime :
          ScheduleTick(now) =>
             \A id \in DOMAIN npcs :
                LET npc == npcs[id]
                    table == IF npc.archetype = "soldier"
                             THEN ARCHETYPE_SCHEDULES["guard"]
                             ELSE IF npc.archetype = "bard"
                             THEN ARCHETYPE_SCHEDULES["artist"]
                             ELSE IF npc.archetype \in DOMAIN ARCHETYPE_SCHEDULES
                             THEN ARCHETYPE_SCHEDULES[npc.archetype]
                             ELSE ARCHETYPE_SCHEDULES["generic"]
                    holding == {i \in 1..Len(table) :
                                   /\ table[i][1] <= now % 24
                                   /\ now % 24 < table[i][2]}
                IN  /\ table[1][1] = 0
                    /\ table[Len(table)][2] = 24
                    /\ \A i \in 1..Len(table) : table[i][1] < table[i][2]
                    /\ \A i \in 1..(Len(table) - 1) :
                          table[i][2] = table[i + 1][1]
                    /\ Cardinality(holding) = 1
                    /\ npcs'[id].activity =
                          IF npc.energy < UnitOne \div 20 THEN SLEEPING
                          ELSE table[CHOOSE i \in holding : TRUE][3]]_vars

\* a soldier with energy exactly at the threshold has been labelled resting,
\* as the guard's table has it from 6 to 8 and from 14 to 16
C33_Witness ==
    /\ DOMAIN npcs = {"n1"}
    /\ npcs["n1"].archetype = "soldier"
    /\ npcs["n1"].energy = UnitOne \div 20
    /\ npcs["n1"].activity = "resting"

-----------------------------------------------------------------------------
(* Properties of the tier selection, under SpecTier *)

\* C34: select_tier gives TEMPLATE exactly when the request is not
\* player-initiated; else CLOUD when the importance is at least 0.8, or the
\* interaction is quest-critical, or turn_count is at least 3; else LOCAL
\* when a local LLM is available; else CLOUD.
C34_TierSelection ==
    tier_result # None =>
        LET context == tier_result.context
            npc == npcs[tier_result.npc_id]
            tier == tier_result.tier
        IN  /\ tier = "template" <=> ~context.player_initiated
            /\ context.player_initiated =>
                  IF \/ 10 * npc.importance >= 8 * UnitOne
                     \/ context.is_quest_critical
                     \/ context.turn_count >= 3
                  THEN tier = "cloud_llm"
                  ELSE IF context.local_llm_available
                  THEN tier = "local_llm"
                  ELSE tier = "cloud_llm"

\* a routine NPC in a short, player-initiated, ordinary conversation with a
\* local model at hand has been given the local tier
C34_Witness ==
    /\ tier_result # None
    /\ tier_result.tier = "local_llm"
    /\ tier_result.context.turn_count = TURN_ESCALATION_THRESHOLD - 1
    /\ npcs[tier_result.npc_id].importance = IMPORTANCE_THRESHOLD - 1

-----------------------------------------------------------------------------
(* Properties of travel, under SpecTravel *)

\* C35: when an NPC departs in the movement stage at clock now over an edge
\* of travel time h, a travel state is recorded with its current location as
\* origin, departure_time = now and arrival_time = now + h, its energy drops
\* by h times 0.02 but not below 0, and its location stays the origin until
\* it arrives; an NPC with energy below 0.15, or at a location that no edge
\* leaves, never departs.
C35_Departure ==
    [][LET departed == {id \in DOMAIN travelers' :
                           id \notin DOMAIN travelers
                               \/ travelers[id] # travelers'[id]}
       IN  /\ \A id \in departed :
                LET travel == travelers'[id]
                    here == IF id \in DOMAIN travelers
                            THEN travelers[id].destination_id
                            ELSE npcs[id].location_id
                IN  /\ pc["req1"] = "movement"
                    /\ travel.origin_id = here
                    /\ npcs'[id].location_id = here
                    /\ travel.departure_time = game_time
                    /\ npcs[id].energy * 100 >= 15 * UnitOne
                    /\ \E e \in get_neighbors(location_graph, here) :
                          /\ e.target_id = travel.destination_id
                          /\ travel.arrival_time = game_time + e.travel_hours
                          /\ npcs'[id].energy * 100 =
                                IF npcs[id].energy * 100
                                      >= 2 * e.travel_hours * UnitOne
                                THEN npcs[id].energy * 100
                                         - 2 * e.travel_hours * UnitOne
                                ELSE 0
           /\ \A id \in DOMAIN npcs \cap DOMAIN npcs' :
                /\ (id \in DOMAIN travelers /\ id \in DOMAIN travelers'
                        /\ travelers'[id] = travelers[id])
                      => /\ npcs'[id].location_id = npcs[id].location_id
                         /\ npcs[id].location_id = travelers[id].origin_id
                /\ npcs'[id].location_id # npcs[id].location_id
                      => /\ id \in DOMAIN travelers
                         /\ game_time >= travelers[id].arrival_time
                         /\ npcs'[id].location_id = travelers[id].destination_id]_vars

\* the rested NPC of the tavern has just left for the forest, and neither
\* the weary one nor the one in the cellar is on the road
C35_Witness ==
    /\ pc["req1"] = "environment"
    /\ DOMAIN travelers = {"n1"}
    /\ travelers["n1"].departure_time = game_time
    /\ travelers["n1"].origin_id = "tavern"
    /\ npcs["n1"].location_id = "tavern"
    /\ npcs["n2"].energy < MIN_ENERGY_TO_MOVE
    /\ npcs["n3"].location_id = "cellar"

-----------------------------------------------------------------------------
(* The capacity of the registry, under SpecCapacity *)

\* C36: in every reachable state, under any sequence of add_npc, remove_npc,
\* tick and restore calls, the number of registered NPCs is at most the
\* manager's max_npcs.
C36_WithinCapacity == Cardinality(DOMAIN npcs) <= max_npcs

\* after a tick the registry is full and add_npc has refused one more id
C36_Witness ==
    /\ Cardinality(DOMAIN npcs) = max_npcs
    /\ add_result.calls > 0
    /\ add_result.raised = "Maximum NPC count reached"
    /\ add_result.npc_id \notin DOMAIN npcs
    /\ tk["req1"].result # None

-----------------------------------------------------------------------------
(* The occupancy of the locations, under SpecWorld *)

\* every location with a capacity greater than 0 holds at most that many
\* NPCs, counting the NPCs whose location_id it is
WithinLocationCapacity(registry) ==
    \A loc \in DOMAIN location_graph.locations :
        LET capacity == location_graph.locations[loc].capacity
        IN  capacity > 0 =>
                Cardinality({id \in DOMAIN registry :
                                registry[id].location_id = loc}) <= capacity

\* C37: movement never overfills a location: if before a movement stage every
\* location with capacity greater than 0 holds at most capacity NPCs, it
\* still does after the stage, whatever departs and arrives in it.
C37_NeverOverfull ==
    [][\A t \in Tasks :
          (MovementStep(t) /\ WithinLocationCapacity(npcs)) =>
              WithinLocationCapacity(npcs')]_vars

-----------------------------------------------------------------------------
(* The delivery of the scheduled events, under SpecDelivery: two NPCs too   *)
(* weary to travel at the tavern, three entries queued for the hours 1, 2,  *)
(* 3 and ticks of one or two hours that keep being called and keep running  *)
(* (the event loop resumes a ready coroutine) for as long as MaxOps allows. *)

QueuedAtStart == <<NewsAt(1), AttackAt(2), NewsAt(3)>>

SpecDelivery ==
    /\ InitOver({[npcs |-> ("n1" :> Weary("tavern", NoActivity)) @@
                           ("n2" :> Weary("tavern", NoActivity)),
                   event_queue |-> QueuedAtStart,
                   max_per_location |-> MAX_INTERACTIONS_PER_LOCATION]})
    /\ [][NextWorld]_vars
    /\ WF_vars(CallWorldTick)
    /\ WF_vars(Tick("req1"))

\* the entry has been handed out by a pop_due at a clock that had reached its
\* delivery time, and every NPC's store holds the memory formed of it then
Applied(entry) ==
    \E k \in DOMAIN delivered :
        /\ delivered[k].entry = entry
        /\ delivered[k].at >= entry.delivery_time
        /\ \A id \in DOMAIN npcs :
              \E j \in DOMAIN memories[id] :
                  memories[id][j] = MemoryEntry(entry.event, delivered[k].at)

\* C38: every scheduled delivery is eventually delivered. With ticks of
\* positive delta_hours that keep occurring, a non-empty registry and no
\* restore: the pop of a tick leaves no entry whose delivery time the clock
\* has reached and hands out exactly those, an entry queued from the
\* start is handed out by the first tick whose clock reaches its delivery
\* time, the event stages have run for every event handed out before the
\* tick goes on to the emotion decay, and every entry queued from the start
\* (each is due by the hour MaxOps, which the ticks reach) is eventually
\* applied to the NPCs.
C38_EventuallyDelivered ==
    /\ [][\A t \in Tasks :
            /\ (pc[t] = "pop" /\ pc'[t] = "list") =>
                  /\ \A k \in DOMAIN event_queue' :
                        event_queue'[k].delivery_time > game_time
                  /\ \A k \in DOMAIN event_queue :
                        event_queue[k].delivery_time <= game_time =>
                            /\ \E j \in DOMAIN tk'[t].due_events :
                                  tk'[t].due_events[j] = event_queue[k].event
                            /\ \A q \in DOMAIN QueuedAtStart :
                                  event_queue[k] = QueuedAtStart[q] =>
                                      game_time - tk[t].delta_hours
                                          < event_queue[k].delivery_time
                  /\ Len(tk'[t].due_events) + Len(event_queue') = Len(event_queue)
            /\ (pc[t] # "emotion_decay" /\ pc'[t] = "emotion_decay") =>
                  /\ tk'[t].npcs # {}
                  /\ \A j \in DOMAIN tk'[t].due_events :
                        LET e == tk'[t].due_events[j]
                        IN  e.description # "" =>
                                \A id \in tk'[t].npcs :
                                    \E m \in DOMAIN memories'[id] :
                                        memories'[id][m] = MemoryEntry(e, game_time)]_vars
    /\ \A q \in DOMAIN QueuedAtStart :
          (\E k \in DOMAIN event_queue : event_queue[k] = QueuedAtStart[q])
              ~> Applied(QueuedAtStart[q])

\* a tick of two hours has handed out the entries of the hours 1 and 2
\* together and applied both, and the entry of the hour 3 is still queued
C38_Witness ==
    /\ game_time = 2
    /\ tk["req1"].delta_hours = 2
    /\ Len(tk["req1"].due_events) = 2
    /\ pc["req1"] = "emotion_decay"
    /\ Applied(NewsAt(1))
    /\ Applied(AttackAt(2))
    /\ \E k \in DOMAIN event_queue : event_queue[k] = NewsAt(3)

-----------------------------------------------------------------------------
(* What remove_npc and restore leave behind, under SpecLeftover: the worlds *)
(* of SpecWorld, with add_npc, remove_npc and restore called between ticks. *)

SpecLeftover ==
    /\ InitWorld
    /\ [][CallAddNpc \/ CallRemoveNpc \/ CallRestore \/ NextWorld]_vars

\* C39: after remove_npc(x) succeeds, no remaining NPC stores an affinity
\* toward x and the movement engine holds no travel state for x.
C39_RemovalForgets ==
    [][\A x \in NpcIds :
          RemoveNpc(x) =>
              /\ x \notin DOMAIN travelers'
              /\ \A o \in DOMAIN npcs' : x \notin DOMAIN npcs'[o].relationships]_vars

\* the movement engine still holds, for id, the travel state it held when
\* the last restore was called, and that restore returned
StaleTravel(id) ==
    /\ restore_result.calls > 0
    /\ restore_result.raised = "none"
    /\ id \in DOMAIN restore_result.travelers
    /\ id \in DOMAIN travelers
    /\ travelers[id] = restore_result.travelers[id]

\* C40: after restore, no travel state created before the restore affects
\* the restored world: no NPC of the registry is traveling by a journey that
\* was in progress before the restore (such an NPC is skipped by the
\* departures of every movement stage until the journey's arrival time, and
\* is then moved to the journey's destination).
C40_NoStaleJourney == \A id \in DOMAIN npcs : ~StaleTravel(id)

=============================================================================
